---- MODULE Spec2Model ----
(***************************************************************************)
(* RiSC-16 toolchain: the virtual machine (Fetch / Execute) and the        *)
(* two-pass assembler (lexer, parser, label binding, encoder).             *)
(***************************************************************************)
EXTENDS Integers, Sequences, FiniteSets, TLC

VARIABLES
    CI,      \* vm.CI  current instruction
    GPR,     \* vm.GPR general purpose registers, 0..7 -> uint16
    M,       \* vm.M   memory; cells not in DOMAIN M hold Go's zero value
    PC,      \* vm.PC  program counter
    ret,     \* what the last Execute call returned: "nil", "halted", "exception"
    op,      \* the last call made on the VM: "new", "Fetch", "Execute"
    steps,   \* number of calls made so far (bounds the exploration)
    src,          \* the lines of the assembler's input
    pos,          \* the position of the parser's next receive in the token stream
    idx,          \* AssemblerAsync: idx
    labels,       \* AssemblerAsync: labels
    instructions, \* AssemblerAsync: instructions, kept as runs (see Pack)
    out,          \* the records sent on the assembler's out channel, as runs
    log,          \* the warnings printed by ResolveImmediate
    phase,        \* AssemblerAsync: "idle", "pass1", "pass2", "aborted", "done"
    lexing,       \* the goroutine of LexAsync: where it is, what it has to send
    parsing,      \* the goroutine of ParseAsync: where it is, what it holds
    assembling,   \* the goroutine of AssemblerAsync: where it is
    closes        \* the number of close calls made on each channel

vmvars == <<CI, GPR, M, PC, ret, op, steps>>
govars == <<lexing, parsing, assembling, closes>>
asmvars == <<src, pos, idx, labels, instructions, out, log, phase,
             lexing, parsing, assembling, closes>>
vars == <<CI, GPR, M, PC, ret, op, steps,
          src, pos, idx, labels, instructions, out, log, phase,
          lexing, parsing, assembling, closes>>

----------------------------------------------------------------------------
(* Bounds of the exploration *)

MaxSteps == 6
ImageLen == 2
MaxLines == 3
MaxBigLines == 2

----------------------------------------------------------------------------
(* uint16 arithmetic *)

Word == 65536

U16(x) == x % Word

RECURSIVE BitAndN(_, _, _)
BitAndN(a, b, n) ==
    IF n = 0 THEN 0
    ELSE (IF a % 2 = 1 /\ b % 2 = 1 THEN 1 ELSE 0)
         + 2 * BitAndN(a \div 2, b \div 2, n - 1)

RECURSIVE BitOrN(_, _, _)
BitOrN(a, b, n) ==
    IF n = 0 THEN 0
    ELSE (IF a % 2 = 1 \/ b % 2 = 1 THEN 1 ELSE 0)
         + 2 * BitOrN(a \div 2, b \div 2, n - 1)

WordBits == 16

And16(a, b) == BitAndN(a, b, WordBits)
Or16(a, b) == BitOrN(a, b, WordBits)
Not16(a) == (Word - 1) - a
Shr(a, k) == a \div (2 ^ k)
Shl16(a, k) == U16(a * (2 ^ k))

----------------------------------------------------------------------------
(* Package vm: constants *)

OpcodeADD == 0
OpcodeADDI == 1
OpcodeNAND == 2
OpcodeLUI == 3
OpcodeSW == 4
OpcodeLW == 5
OpcodeBEQ == 6
OpcodeJALR == 7

MemorySize == 65536
NumRegisters == 8

ExceptionTypeEXCEPTION == 112
ExceptionValueHALT == 1

----------------------------------------------------------------------------
(* Package vm: the machine *)

\* vm.M[a] for a memory kept as the cells that were loaded or stored
ReadM(m, a) == IF a \in DOMAIN m THEN m[a] ELSE 0

\* a variant of the store that keeps no other cell
WriteMAlone(m, a, v) == [x \in {a} |-> v]

WriteM(m, a, v) == [x \in (DOMAIN m) \cup {a} |-> IF x = a THEN v ELSE m[x]]

\* a variant of the extension that sets the high byte alone
SignExtend7HighByte(v) ==
    IF And16(v, 64) # 0 THEN Or16(v, 65280) ELSE v

\* a variant of the extension that leaves the seven bits as they are
SignExtend7Unsigned(v) == v

SignExtend7(v) ==
    IF And16(v, 64) # 0 THEN Or16(v, 65408) ELSE v

\* a variant of the decoding that takes the seven bits as they are
DecodeImm7Unextended(instr) ==
    [opcode |-> Shr(instr, 13),
     ra     |-> And16(Shr(instr, 10), 7),
     rb     |-> And16(Shr(instr, 7), 7),
     rc     |-> And16(instr, 7),
     imm7   |-> And16(instr, 127),
     imm10  |-> And16(instr, 1023)]

\* the instruction fields as Execute and Disassemble decode them
Decode(instr) ==
    [opcode |-> Shr(instr, 13),
     ra     |-> And16(Shr(instr, 10), 7),
     rb     |-> And16(Shr(instr, 7), 7),
     rc     |-> And16(instr, 7),
     imm7   |-> SignExtend7(And16(instr, 127)),
     imm10  |-> And16(instr, 1023)]

\* a variant of Execute with no deferred function
ExecuteNotDeferred(vm) == vm

\* a variant of the deferred function that clears r0 alone
ExecuteDeferredKeepsCI(vm) == [vm EXCEPT !.GPR[0] = 0]

\* the deferred function of Execute
ExecuteDeferred(vm) == [vm EXCEPT !.GPR[0] = 0, !.CI = 0]

\* is the JALR an exception request?
JALRRaises(vm, d) == vm.GPR[d.ra] = 0 /\ vm.GPR[d.rb] = 0

\* a variant of the inner switch with the default case alone
JALRErrorDefault(d) == "exception"

\* the error an exception request returns
JALRError(d) ==
    IF And16(d.imm7, 127) = Or16(ExceptionTypeEXCEPTION, ExceptionValueHALT)
    THEN "halted"
    ELSE "exception"

\* the link and jump of JALR: two assignments, in order
JALRJump(vm, d) ==
    LET linked == [vm EXCEPT !.GPR[d.ra] = vm.PC]
    IN  [linked EXCEPT !.PC = linked.GPR[d.rb]]

\* the switch of Execute: the machine before the deferred function runs, and
\* the returned error
ExecuteSwitch(vm) ==
    LET d == Decode(vm.CI)
        g == vm.GPR
    IN  CASE d.opcode = OpcodeADD ->
               [vm  |-> [vm EXCEPT !.GPR[d.ra] = U16(g[d.rb] + g[d.rc])],
                err |-> "nil"]
          [] d.opcode = OpcodeADDI ->
               [vm  |-> [vm EXCEPT !.GPR[d.ra] = U16(g[d.rb] + d.imm7)],
                err |-> "nil"]
          [] d.opcode = OpcodeNAND ->
               [vm  |-> [vm EXCEPT !.GPR[d.ra] = Not16(And16(g[d.rb], g[d.rc]))],
                err |-> "nil"]
          [] d.opcode = OpcodeLUI ->
               [vm  |-> [vm EXCEPT !.GPR[d.ra] = Shl16(d.imm10, 6)],
                err |-> "nil"]
          [] d.opcode = OpcodeSW ->
               [vm  |-> [vm EXCEPT !.M = WriteM(vm.M, U16(g[d.rb] + d.imm7), g[d.ra])],
                err |-> "nil"]
          [] d.opcode = OpcodeLW ->
               [vm  |-> [vm EXCEPT !.GPR[d.ra] = ReadM(vm.M, U16(g[d.rb] + d.imm7))],
                err |-> "nil"]
          [] d.opcode = OpcodeBEQ ->
               [vm  |-> IF g[d.ra] = g[d.rb]
                        THEN [vm EXCEPT !.PC = U16(vm.PC + d.imm7)]
                        ELSE vm,
                err |-> "nil"]
          [] d.opcode = OpcodeJALR ->
               IF JALRRaises(vm, d)
               THEN [vm |-> vm, err |-> JALRError(d)]
               ELSE [vm |-> JALRJump(vm, d), err |-> "nil"]

\* a variant of Execute that also advances PC
ExecuteVMAdvancing(vm) ==
    LET r == ExecuteSwitch(vm)
    IN  [vm |-> [ExecuteDeferred(r.vm) EXCEPT !.PC = U16(@ + 1)], err |-> r.err]

\* VM.Execute as a function of the machine
ExecuteVM(vm) ==
    LET r == ExecuteSwitch(vm)
    IN  [vm |-> ExecuteDeferred(r.vm), err |-> r.err]

\* a variant of Fetch whose increment does not wrap
FetchVMWithoutWrap(vm) == [vm EXCEPT !.CI = ReadM(vm.M, vm.PC), !.PC = vm.PC + 1]

\* VM.Fetch as a function of the machine
FetchVM(vm) == [vm EXCEPT !.CI = ReadM(vm.M, vm.PC), !.PC = U16(vm.PC + 1)]

TheVM == [CI |-> CI, GPR |-> GPR, M |-> M, PC |-> PC]

----------------------------------------------------------------------------
(* Package vm: Disassemble.  The text returned is a sequence of            *)
(* one-character strings.                                                  *)

\* int16(v) of a uint16
Int16(v) == IF v >= Word \div 2 THEN v - Word ELSE v

DigitChar(d) == <<"0", "1", "2", "3", "4", "5", "6", "7", "8", "9">>[d + 1]

\* the decimal digits of a natural number
RECURSIVE FormatUint(_)
FormatUint(n) ==
    IF n < 10 THEN <<DigitChar(n)>>
    ELSE Append(FormatUint(n \div 10), DigitChar(n % 10))

\* the %d verb of fmt.Sprintf
FormatInt(n) == IF n < 0 THEN <<"-">> \o FormatUint(0 - n) ELSE FormatUint(n)

\* " r%d"
SprintR(r) == <<" ", "r">> \o FormatInt(r)

\* " %d"
SprintD(n) == <<" ">> \o FormatInt(n)

\* fmt.Sprintf("<name> r%d r%d r%d", ra, rb, rc)
SprintRRR(name, d) == name \o SprintR(d.ra) \o SprintR(d.rb) \o SprintR(d.rc)

\* fmt.Sprintf("<name> r%d r%d %d", ra, rb, int16(imm7))
SprintRRI(name, d) ==
    name \o SprintR(d.ra) \o SprintR(d.rb) \o SprintD(Int16(d.imm7))

\* Disassemble(instr): the switch on the opcode; a 3-bit opcode always
\* selects one of the eight cases, never the default
Disassemble(instr) ==
    LET d == Decode(instr)
    IN  CASE d.opcode = OpcodeADD  -> SprintRRR(<<"a","d","d">>, d)
          [] d.opcode = OpcodeADDI -> SprintRRI(<<"a","d","d","i">>, d)
          [] d.opcode = OpcodeNAND -> SprintRRR(<<"n","a","n","d">>, d)
          [] d.opcode = OpcodeLUI  ->
               <<"l","u","i">> \o SprintR(d.ra) \o SprintD(d.imm10)
          [] d.opcode = OpcodeSW   -> SprintRRI(<<"s","w">>, d)
          [] d.opcode = OpcodeLW   -> SprintRRI(<<"l","w">>, d)
          [] d.opcode = OpcodeBEQ  -> SprintRRI(<<"b","e","q">>, d)
          [] d.opcode = OpcodeJALR -> SprintRRI(<<"j","a","l","r">>, d)

----------------------------------------------------------------------------
(* Package asm: text.  A string is a sequence of one-character strings. *)

Lower == {"a","b","c","d","e","f","g","h","i","j","k","l","m",
          "n","o","p","q","r","s","t","u","v","w","x","y","z"}
Upper == {"A","B","C","D","E","F","G","H","I","J","K","L","M",
          "N","O","P","Q","R","S","T","U","V","W","X","Y","Z"}
Digits == {"0","1","2","3","4","5","6","7","8","9"}

IdentStart == Lower \cup Upper \cup {"_"}
IdentChar == Lower \cup Upper \cup Digits \cup {"_"}

\* text[from..], Go's text[from-1:]
Drop(text, n) == SubSeq(text, n + 1, Len(text))
Take(text, n) == SubSeq(text, 1, n)

\* the number of leading characters of text[from..] that belong to class
RECURSIVE Run(_, _, _)
Run(text, from, class) ==
    IF from <= Len(text) /\ text[from] \in class
    THEN 1 + Run(text, from + 1, class)
    ELSE 0

----------------------------------------------------------------------------
(* Package asm: the lexer *)

LexerBlank == "Blank"
LexerComma == "Comma"
LexerComment == "Comment"
LexerEOF == ""
LexerEOL == "EOL"
LexerInvalid == "Invalid"
LexerLabel == "Label"
LexerNameOrNumber == "NameOrNumber"

\* Each rule's regular expression, as the length of the match at the start
\* of a non-empty text; 0 when the expression does not match.

\* ^#[^\n]*
MatchComment(text) == IF text[1] = "#" THEN Len(text) ELSE 0

\* ^[a-zA-Z_][a-zA-Z0-9_]*:
MatchLabel(text) ==
    IF text[1] \in IdentStart
    THEN LET n == 1 + Run(text, 2, IdentChar)
         IN  IF n < Len(text) /\ text[n + 1] = ":" THEN n + 1 ELSE 0
    ELSE 0

\* ^[.a-zA-Z_][a-zA-Z0-9_]*
MatchName(text) ==
    IF text[1] \in IdentStart \cup {"."}
    THEN 1 + Run(text, 2, IdentChar)
    ELSE 0

\* ^(0|-?[1-9][0-9]*)
MatchNumber(text) ==
    IF text[1] = "0" THEN 1
    ELSE LET s == IF text[1] = "-" THEN 1 ELSE 0
         IN  IF s < Len(text) /\ text[s + 1] \in Digits \ {"0"}
             THEN s + 1 + Run(text, s + 2, Digits)
             ELSE 0

\* ^,
MatchComma(text) == IF text[1] = "," THEN 1 ELSE 0

\* ^[ \t]+
MatchBlank(text) == Run(text, 1, {" ", "\t"})

LexerRules ==
    << [Emit |-> FALSE, RE |-> "Comment", Type |-> LexerComment],
       [Emit |-> TRUE,  RE |-> "Label",   Type |-> LexerLabel],
       [Emit |-> TRUE,  RE |-> "Name",    Type |-> LexerNameOrNumber],
       [Emit |-> TRUE,  RE |-> "Number",  Type |-> LexerNameOrNumber],
       [Emit |-> TRUE,  RE |-> "Comma",   Type |-> LexerComma],
       [Emit |-> FALSE, RE |-> "Blank",   Type |-> LexerBlank] >>

\* rule.RE.FindStringIndex(text): the end of the match, 0 for nil
FindStringIndex(rule, text) ==
    CASE rule.RE = "Comment" -> MatchComment(text)
      [] rule.RE = "Label"   -> MatchLabel(text)
      [] rule.RE = "Name"    -> MatchName(text)
      [] rule.RE = "Number"  -> MatchNumber(text)
      [] rule.RE = "Comma"   -> MatchComma(text)
      [] rule.RE = "Blank"   -> MatchBlank(text)

LexerToken(lineno, type, value) ==
    [Err |-> "", Lineno |-> lineno, Type |-> type, Value |-> value]

\* what a receive from the closed token channel yields
ZeroToken == LexerToken(0, LexerEOF, <<>>)

\* the least element of a set of numbers, 0 for the empty set
MinOrZero(set) ==
    IF set = {} THEN 0 ELSE CHOOSE k \in set : \A j \in set : k <= j

\* the index of the first rule that matches, 0 when none does
FirstRule(text) ==
    MinOrZero({k \in 1..Len(LexerRules) : FindStringIndex(LexerRules[k], text) > 0})

\* LexLine: the tokens sent for one line
RECURSIVE LexLine(_, _)

\* the rule matched the first m characters
LexMatched(text, lineno, rule, m) ==
    (IF rule.Emit
     THEN <<LexerToken(lineno, rule.Type, Take(text, m))>>
     ELSE <<>>)
    \o LexLine(Drop(text, m), lineno)

\* a variant of LexRule that drops the remainder no rule matches without a
\* token for it
LexRuleWithoutInvalid(text, lineno, k) ==
    IF k = 0
    THEN <<LexerToken(lineno, LexerEOL, <<>>)>>
    ELSE LexMatched(text, lineno, LexerRules[k],
                    FindStringIndex(LexerRules[k], text))

\* the loop over the rules ended at rule k, or with no match if k = 0
LexRule(text, lineno, k) ==
    IF k = 0
    THEN <<LexerToken(lineno, LexerInvalid, <<>>),
           LexerToken(lineno, LexerEOL, <<>>)>>
    ELSE LexMatched(text, lineno, LexerRules[k],
                    FindStringIndex(LexerRules[k], text))

LexLine(text, lineno) ==
    IF text = <<>>
    THEN <<LexerToken(lineno, LexerEOL, <<>>)>>
    ELSE LexRule(text, lineno, FirstRule(text))

\* bufio.NewScanner(r): the scanner's buffer holds at most
\* bufio.MaxScanTokenSize bytes, and Scan fails with bufio.ErrTooLong on a
\* line that does not fit with its newline
MaxScanTokenSize == 65536

ErrTooLong == "bufio.Scanner: token too long"

\* does scanner.Scan() return true on this line?
Scan(line) == Len(line) < MaxScanTokenSize

\* out <- LexerToken{Lineno: lineno, Err: err}: Type and Value keep their
\* zero values
ErrToken(lineno) ==
    [Err |-> ErrTooLong, Lineno |-> lineno, Type |-> "", Value |-> <<>>]

\* LexAsync from line lineno on: the tokens of the lines the scanner
\* delivers, then the error token if the scanner stopped on an error
RECURSIVE LexLines(_, _)
LexLines(lines, lineno) ==
    IF lineno > Len(lines) THEN <<>>
    ELSE IF ~Scan(lines[lineno]) THEN <<ErrToken(lineno - 1)>>
    ELSE LexLine(lines[lineno], lineno) \o LexLines(lines, lineno + 1)

LexAsync(lines) == LexLines(lines, 1)

----------------------------------------------------------------------------
(* strconv.ParseInt and strconv.ParseUint with base 0 *)

DigitValue(c) ==
    CASE c = "0" -> 0 [] c = "1" -> 1 [] c = "2" -> 2 [] c = "3" -> 3
      [] c = "4" -> 4 [] c = "5" -> 5 [] c = "6" -> 6 [] c = "7" -> 7
      [] c = "8" -> 8 [] c = "9" -> 9
      [] c \in {"a", "A"} -> 10 [] c \in {"b", "B"} -> 11
      [] c \in {"c", "C"} -> 12 [] c \in {"d", "D"} -> 13
      [] c \in {"e", "E"} -> 14 [] c \in {"f", "F"} -> 15
      [] OTHER -> 99

\* the digits of s in the given base: [ok, n]
RECURSIVE ParseDigits(_, _, _, _)
ParseDigits(s, i, base, acc) ==
    IF i > Len(s) THEN [ok |-> TRUE, n |-> acc]
    ELSE IF DigitValue(s[i]) >= base THEN [ok |-> FALSE, n |-> 0]
    ELSE ParseDigits(s, i + 1, base, acc * base + DigitValue(s[i]))

\* the base prefix of base 0: [base, rest]
BasePrefix(s) ==
    IF s[1] = "0"
    THEN IF Len(s) >= 3 /\ s[2] \in {"b", "B"} THEN [base |-> 2, rest |-> Drop(s, 2)]
         ELSE IF Len(s) >= 3 /\ s[2] \in {"o", "O"} THEN [base |-> 8, rest |-> Drop(s, 2)]
         ELSE IF Len(s) >= 3 /\ s[2] \in {"x", "X"} THEN [base |-> 16, rest |-> Drop(s, 2)]
         ELSE [base |-> 8, rest |-> Drop(s, 1)]
    ELSE [base |-> 10, rest |-> s]

SyntaxOrRange == [ok |-> FALSE, n |-> 0]

\* the range check of ParseUint on the digits' value
UintChecked(d, bitSize) ==
    IF ~d.ok THEN SyntaxOrRange
    ELSE IF bitSize < 31 /\ d.n >= 2 ^ bitSize THEN SyntaxOrRange
    ELSE d

UintDigits(prefix, bitSize) ==
    UintChecked(ParseDigits(prefix.rest, 1, prefix.base, 0), bitSize)

\* strconv.ParseUint(s, 0, bitSize): [ok, n].  The texts parsed are a few
\* characters long, so the 64-bit overflow check is the bitSize check alone;
\* the underscore digit separator is not modelled (it counts as a bad digit).
ParseUint(s, bitSize) ==
    IF s = <<>> THEN SyntaxOrRange ELSE UintDigits(BasePrefix(s), bitSize)

\* the sign and range check of ParseInt on the magnitude un
IntChecked(neg, un, bitSize) ==
    IF ~un.ok THEN SyntaxOrRange
    ELSE IF bitSize < 31 /\ ~neg /\ un.n >= 2 ^ (bitSize - 1) THEN SyntaxOrRange
    ELSE IF bitSize < 31 /\ neg /\ un.n > 2 ^ (bitSize - 1) THEN SyntaxOrRange
    ELSE [ok |-> TRUE, n |-> IF neg THEN 0 - un.n ELSE un.n]

\* the greatest int64 and the magnitude of the least, in decimal
MaxInt64Text ==
    <<"9","2","2","3","3","7","2","0","3","6","8","5","4","7","7","5","8","0","7">>
MinInt64Text ==
    <<"9","2","2","3","3","7","2","0","3","6","8","5","4","7","7","5","8","0","8">>

\* is the decimal text a greater than the decimal text b of the same length?
RECURSIVE DecimalGreater(_, _, _)
DecimalGreater(a, b, i) ==
    IF i > Len(a) THEN FALSE
    ELSE IF a[i] = b[i] THEN DecimalGreater(a, b, i + 1)
    ELSE DigitValue(a[i]) > DigitValue(b[i])

\* strconv's ErrRange for a decimal magnitude: the value does not fit in 64
\* bits.  It is decided on the text, before the digits are accumulated.
DecimalRange(neg, digits) ==
    /\ digits # <<>>
    /\ digits[1] # "0"
    /\ \A i \in 1..Len(digits) : DigitValue(digits[i]) < 10
    /\ \/ Len(digits) > Len(MaxInt64Text)
       \/ /\ Len(digits) = Len(MaxInt64Text)
          /\ DecimalGreater(digits, IF neg THEN MinInt64Text ELSE MaxInt64Text, 1)

\* strconv.ParseInt(s, 0, bitSize): [ok, n].  A decimal text outside the
\* 64-bit range is an error; the other texts parsed have at most nine digits.
ParseInt(s, bitSize) ==
    IF s = <<>> THEN SyntaxOrRange
    ELSE IF DecimalRange(s[1] = "-", IF s[1] \in {"+", "-"} THEN Drop(s, 1) ELSE s)
    THEN SyntaxOrRange
    ELSE IntChecked(s[1] = "-",
                    ParseUint(IF s[1] \in {"+", "-"} THEN Drop(s, 1) ELSE s, 64),
                    bitSize)

----------------------------------------------------------------------------
(* Package asm: errors and instructions *)

ErrExpectedNameOrNumber == "asm: expected name or number"
ErrUnknownInstruction == "asm: unknown instruction"
ErrExpectedEOL == "asm: expected end of line"
ErrInvalidRegisterName == "asm: invalid register name"
ErrOutOfRange == "asm: immediate value out of range"
ErrCannotEncode == "asm: can't encode instruction"
ErrTooManyInstructions == "asm: too many instructions"

\* a nil error
NoErr == [wraps |-> "", msg |-> "", line |-> <<>>]

\* fmt.Errorf("%w <msg> on line %d", wraps, line); line is <<>> when the
\* message names no line
Errorf(wraps, msg, line) == [wraps |-> wraps, msg |-> msg, line |-> line]

\* a nil *string
NoLabel == <<>>

\* the zero value of an instruction struct of the given type; Imm is the
\* immediate text of ADDI, LUI, SW, LW, BEQ and LLI, ImmN the uint16 Imm of
\* JALR
Instruction(kind) ==
    [kind |-> kind, Error |-> NoErr, Lineno |-> 0, MaybeLabel |-> NoLabel,
     RA |-> 0, RB |-> 0, RC |-> 0, Imm |-> <<>>, ImmN |-> 0, Value |-> 0]

\* InstructionErr{Error: err}: every other field keeps its zero value
NewParseError(err) == << [Instruction("Err") EXCEPT !.Error = err] >>

----------------------------------------------------------------------------
(* Package asm: the parser.  The token channel is the sequence of tokens   *)
(* the lexer sends and the position of the next receive; a receive past    *)
(* the end is a receive from the closed channel.                           *)

Recv(in, p) == IF p <= Len(in) THEN in[p] ELSE ZeroToken

TrimPrefix(v, c) == IF v # <<>> /\ v[1] = c THEN Drop(v, 1) ELSE v
TrimSuffix(v, c) == IF v # <<>> /\ v[Len(v)] = c THEN Take(v, Len(v) - 1) ELSE v

\* the switch on the register name, for the name v with the "r" trimmed
RegisterSwitch(v, token, p) ==
    IF Len(v) = 1 /\ v[1] \in {"0", "1", "2", "3", "4", "5", "6", "7"}
    THEN [v |-> DigitValue(v[1]), err |-> NoErr, pos |-> p]
    ELSE [v |-> 0,
          err |-> Errorf(ErrInvalidRegisterName, "while parsing register name",
                         <<token.Lineno>>),
          pos |-> p]

RegisterName(token, p) == RegisterSwitch(TrimPrefix(token.Value, "r"), token, p)

\* a variant of the operand's token that takes no comma before the operand
OperandTokenWithoutComma(token, second, p) ==
    [token |-> token, ok |-> token.Type = LexerNameOrNumber, pos |-> p + 1]

\* the token an operand is read from, after the optional comma:
\* [token, ok, pos]; ok is false when no name or number is found
OperandToken(token, second, p) ==
    CASE token.Type = LexerNameOrNumber ->
           [token |-> token, ok |-> TRUE, pos |-> p + 1]
      [] token.Type = LexerComma ->
           [token |-> second, ok |-> second.Type = LexerNameOrNumber, pos |-> p + 2]
      [] OTHER ->
           [token |-> token, ok |-> FALSE, pos |-> p + 1]

\* the message of the error for a missing immediate
ImmediateMissing(token) ==
    IF token.Type = LexerComma
    THEN "while parsing register name"
    ELSE "while parsing immediate"

RegisterFrom(t) ==
    IF t.ok THEN RegisterName(t.token, t.pos)
    ELSE [v |-> 0,
          err |-> Errorf(ErrExpectedNameOrNumber, "while parsing register name",
                         <<t.token.Lineno>>),
          pos |-> t.pos]

ImmediateFrom(t, first) ==
    IF t.ok THEN [v |-> t.token.Value, err |-> NoErr, pos |-> t.pos]
    ELSE [v |-> <<>>,
          err |-> Errorf(ErrExpectedNameOrNumber, ImmediateMissing(first),
                         <<t.token.Lineno>>),
          pos |-> t.pos]

\* [v, err, pos]
MaybeSkipCommaThenParseRegister(in, p) ==
    RegisterFrom(OperandToken(Recv(in, p), Recv(in, p + 1), p))

\* [v, err, pos]
MaybeSkipCommaThenParseImmediate(in, p) ==
    ImmediateFrom(OperandToken(Recv(in, p), Recv(in, p + 1), p), Recv(in, p))

EOLFrom(token, p) ==
    IF token.Type = LexerEOL
    THEN [err |-> NoErr, pos |-> p + 1]
    ELSE [err |-> Errorf(ErrExpectedEOL, "while processing instruction",
                         <<token.Lineno>>),
          pos |-> p + 1]

\* [err, pos]
ParseEOL(in, p) == EOLFrom(Recv(in, p), p)

\* The body every specific parser shares: the operands of the given shape
\* ("R" a register, "I" an immediate) are parsed in order, then the end of
\* line; the first error ends the parse.  [vals, err, pos]
RECURSIVE ParseOperands(_, _, _, _)
RECURSIVE AfterOperand(_, _, _, _)

AfterOperand(in, shape, vals, r) ==
    IF r.err # NoErr
    THEN [vals |-> vals, err |-> r.err, pos |-> r.pos]
    ELSE ParseOperands(in, shape, Append(vals, r.v), r.pos)

AfterEOL(vals, eol) == [vals |-> vals, err |-> eol.err, pos |-> eol.pos]

ParseOperands(in, shape, vals, p) ==
    IF Len(vals) = Len(shape)
    THEN AfterEOL(vals, ParseEOL(in, p))
    ELSE IF shape[Len(vals) + 1] = "R"
    THEN AfterOperand(in, shape, vals, MaybeSkipCommaThenParseRegister(in, p))
    ELSE AfterOperand(in, shape, vals, MaybeSkipCommaThenParseImmediate(in, p))

\* what a specific parser returns: the instructions and the position of the
\* next receive
Parsed(o, p) == [out |-> o, pos |-> p]

Failed(r) == Parsed(NewParseError(r.err), r.pos)

BuildRRR(kind, label, lineno, r) ==
    IF r.err # NoErr THEN Failed(r)
    ELSE Parsed(<< [Instruction(kind) EXCEPT !.Lineno = lineno,
                       !.MaybeLabel = label, !.RA = r.vals[1], !.RB = r.vals[2],
                       !.RC = r.vals[3]] >>, r.pos)

BuildRRI(kind, label, lineno, r) ==
    IF r.err # NoErr THEN Failed(r)
    ELSE Parsed(<< [Instruction(kind) EXCEPT !.Lineno = lineno,
                       !.MaybeLabel = label, !.RA = r.vals[1], !.RB = r.vals[2],
                       !.Imm = r.vals[3]] >>, r.pos)

BuildRI(kind, label, lineno, r) ==
    IF r.err # NoErr THEN Failed(r)
    ELSE Parsed(<< [Instruction(kind) EXCEPT !.Lineno = lineno,
                       !.MaybeLabel = label, !.RA = r.vals[1],
                       !.Imm = r.vals[2]] >>, r.pos)

ParseADD(in, p, label, lineno) ==
    BuildRRR("ADD", label, lineno, ParseOperands(in, <<"R", "R", "R">>, <<>>, p))

ParseADDI(in, p, label, lineno) ==
    BuildRRI("ADDI", label, lineno, ParseOperands(in, <<"R", "R", "I">>, <<>>, p))

ParseNAND(in, p, label, lineno) ==
    BuildRRR("NAND", label, lineno, ParseOperands(in, <<"R", "R", "R">>, <<>>, p))

ParseLUI(in, p, label, lineno) ==
    BuildRI("LUI", label, lineno, ParseOperands(in, <<"R", "I">>, <<>>, p))

ParseSW(in, p, label, lineno) ==
    BuildRRI("SW", label, lineno, ParseOperands(in, <<"R", "R", "I">>, <<>>, p))

ParseLW(in, p, label, lineno) ==
    BuildRRI("LW", label, lineno, ParseOperands(in, <<"R", "R", "I">>, <<>>, p))

ParseBEQ(in, p, label, lineno) ==
    BuildRRI("BEQ", label, lineno, ParseOperands(in, <<"R", "R", "I">>, <<>>, p))

ParseLLI(in, p, label, lineno) ==
    BuildRI("LLI", label, lineno, ParseOperands(in, <<"R", "I">>, <<>>, p))

BuildJALR(label, lineno, r) ==
    IF r.err # NoErr THEN Failed(r)
    ELSE Parsed(<< [Instruction("JALR") EXCEPT !.Lineno = lineno,
                       !.MaybeLabel = label, !.RA = r.vals[1],
                       !.RB = r.vals[2]] >>, r.pos)

ParseJALR(in, p, label, lineno) ==
    BuildJALR(label, lineno, ParseOperands(in, <<"R", "R">>, <<>>, p))

\* NOP is mapped to ADD r0 r0 r0
BuildNOP(label, lineno, r) ==
    IF r.err # NoErr THEN Failed(r)
    ELSE Parsed(<< [Instruction("ADD") EXCEPT !.Lineno = lineno,
                       !.MaybeLabel = label] >>, r.pos)

ParseNOP(in, p, label, lineno) ==
    BuildNOP(label, lineno, ParseOperands(in, <<>>, <<>>, p))

\* a variant of ParseHALT that leaves ExceptionValueHALT out of Imm
HaltImmTypeOnly == Or16(ExceptionTypeEXCEPTION, 0)

\* the immediate ParseHALT gives the JALR
HaltImm == Or16(ExceptionTypeEXCEPTION, ExceptionValueHALT)

\* HALT is mapped to JALR r0 r0 <special-value>
BuildHALT(label, lineno, r) ==
    IF r.err # NoErr THEN Failed(r)
    ELSE Parsed(<< [Instruction("JALR") EXCEPT !.Lineno = lineno,
                       !.MaybeLabel = label, !.ImmN = HaltImm] >>, r.pos)

ParseHALT(in, p, label, lineno) ==
    BuildHALT(label, lineno, ParseOperands(in, <<>>, <<>>, p))

\* a variant of ParseMOVI that labels both instructions
MoviSecondLabelKept(label) == label

\* the label of the second instruction of MOVI
MoviSecondLabel(label) == NoLabel

\* MOVI translates to LUI and LLI
BuildMOVI(label, lineno, r) ==
    IF r.err # NoErr THEN Failed(r)
    ELSE Parsed(<< [Instruction("LUI") EXCEPT !.Lineno = lineno,
                       !.MaybeLabel = label, !.RA = r.vals[1], !.Imm = r.vals[2]],
                   [Instruction("LLI") EXCEPT !.Lineno = lineno,
                       !.MaybeLabel = MoviSecondLabel(label), !.RA = r.vals[1],
                       !.Imm = r.vals[2]] >>, r.pos)

ParseMOVI(in, p, label, lineno) ==
    BuildMOVI(label, lineno, ParseOperands(in, <<"R", "I">>, <<>>, p))

\* strconv.ParseInt(imm, 0, 16), then the DATA instruction
\* a variant of the data instruction that drops the label
FillDataUnlabelled(label, lineno, r, value) ==
    IF ~value.ok
    THEN Parsed(NewParseError(Errorf(ErrOutOfRange, "for data", <<>>)), r.pos)
    ELSE Parsed(<< [Instruction("DATA") EXCEPT !.Lineno = lineno,
                       !.Value = U16(value.n)] >>, r.pos)

FillData(label, lineno, r, value) ==
    IF ~value.ok
    THEN Parsed(NewParseError(Errorf(ErrOutOfRange, "for data", <<>>)), r.pos)
    ELSE Parsed(<< [Instruction("DATA") EXCEPT !.Lineno = lineno,
                       !.MaybeLabel = label, !.Value = U16(value.n)] >>, r.pos)

\* a variant of ParseFILL that parses the immediate as a 64-bit value
BuildFILLWide(label, lineno, r) ==
    IF r.err # NoErr THEN Failed(r)
    ELSE FillData(label, lineno, r, ParseInt(r.vals[1], 64))

BuildFILL(label, lineno, r) ==
    IF r.err # NoErr THEN Failed(r)
    ELSE FillData(label, lineno, r, ParseInt(r.vals[1], 16))

ParseFILL(in, p, label, lineno) ==
    BuildFILL(label, lineno, ParseOperands(in, <<"I">>, <<>>, p))

\* the check ParseSPACE makes on the parsed count
SpaceCountBad(count) == ~count.ok \/ count.n <= 0

\* a variant of ParseSPACE without the label = nil of the loop
SpaceLabelKept(label, i) == label

\* the label of the i-th (from 0) word of .space
SpaceLabel(label, i) == IF i = 0 THEN label ELSE NoLabel

\* strconv.ParseUint(imm, 0, 16), then the loop appending count instructions
\* to the empty slice
SpaceData(label, lineno, r, count) ==
    IF SpaceCountBad(count)
    THEN Parsed(NewParseError(Errorf(ErrOutOfRange, "for data", <<>>)), r.pos)
    ELSE Parsed(<<>> \o [i \in 1..count.n |->
                            [Instruction("DATA") EXCEPT !.Lineno = lineno,
                                !.MaybeLabel = SpaceLabel(label, i - 1)]],
                r.pos)

BuildSPACE(label, lineno, r) ==
    IF r.err # NoErr THEN Failed(r)
    ELSE SpaceData(label, lineno, r, ParseUint(r.vals[1], 16))

ParseSPACE(in, p, label, lineno) ==
    BuildSPACE(label, lineno, ParseOperands(in, <<"I">>, <<>>, p))

\* InstructionParsers[name]; "nil" stands for the missing entry
InstructionParsers(name) ==
    CASE name = <<"a","d","d">> -> "ParseADD"
      [] name = <<"a","d","d","i">> -> "ParseADDI"
      [] name = <<"n","a","n","d">> -> "ParseNAND"
      [] name = <<"l","u","i">> -> "ParseLUI"
      [] name = <<"s","w">> -> "ParseSW"
      [] name = <<"l","w">> -> "ParseLW"
      [] name = <<"b","e","q">> -> "ParseBEQ"
      [] name = <<"j","a","l","r">> -> "ParseJALR"
      [] name = <<"n","o","p">> -> "ParseNOP"
      [] name = <<"h","a","l","t">> -> "ParseHALT"
      [] name = <<"l","l","i">> -> "ParseLLI"
      [] name = <<"m","o","v","i">> -> "ParseMOVI"
      [] name = <<".","f","i","l","l">> -> "ParseFILL"
      [] name = <<".","s","p","a","c","e">> -> "ParseSPACE"
      [] OTHER -> "nil"

\* parser(in, label, token.Lineno)
CallParser(parser, in, p, label, lineno) ==
    CASE parser = "ParseADD" -> ParseADD(in, p, label, lineno)
      [] parser = "ParseADDI" -> ParseADDI(in, p, label, lineno)
      [] parser = "ParseNAND" -> ParseNAND(in, p, label, lineno)
      [] parser = "ParseLUI" -> ParseLUI(in, p, label, lineno)
      [] parser = "ParseSW" -> ParseSW(in, p, label, lineno)
      [] parser = "ParseLW" -> ParseLW(in, p, label, lineno)
      [] parser = "ParseBEQ" -> ParseBEQ(in, p, label, lineno)
      [] parser = "ParseJALR" -> ParseJALR(in, p, label, lineno)
      [] parser = "ParseNOP" -> ParseNOP(in, p, label, lineno)
      [] parser = "ParseHALT" -> ParseHALT(in, p, label, lineno)
      [] parser = "ParseLLI" -> ParseLLI(in, p, label, lineno)
      [] parser = "ParseMOVI" -> ParseMOVI(in, p, label, lineno)
      [] parser = "ParseFILL" -> ParseFILL(in, p, label, lineno)
      [] parser = "ParseSPACE" -> ParseSPACE(in, p, label, lineno)

\* step 2 of ParseSingleInstruction: the instruction name is `token`, the
\* next receive is at p
ParseInstructionName(in, p, label, token, parser) ==
    IF token.Type # LexerNameOrNumber
    THEN Parsed(NewParseError(Errorf(ErrExpectedNameOrNumber,
                    "while parsing instruction name", <<token.Lineno>>)), p)
    ELSE IF parser = "nil"
    THEN Parsed(NewParseError(Errorf(ErrUnknownInstruction,
                    "while processing instruction name", <<token.Lineno>>)), p)
    ELSE CallParser(parser, in, p, label, token.Lineno)

\* step 1 of ParseSingleInstruction, for a first token that is neither the
\* end of the input nor an end of line: [label, token, pos]
OptionalLabel(in, p, token) ==
    IF token.Type = LexerLabel
    THEN [label |-> <<TrimSuffix(token.Value, ":")>>, token |-> Recv(in, p + 1),
          pos |-> p + 2]
    ELSE [label |-> NoLabel, token |-> token, pos |-> p + 1]

ParseLabelled(in, l) ==
    ParseInstructionName(in, l.pos, l.label, l.token,
                         InstructionParsers(l.token.Value))

NotNil(r) == [nil |-> FALSE, out |-> r.out, pos |-> r.pos]

\* ParseSingleInstruction: [nil, out, pos]; nil is the nil slice returned at
\* the end of lexing
RECURSIVE ParseSingleInstruction(_, _)
ParseSingleInstruction(in, p) ==
    CASE Recv(in, p).Type = LexerEOF ->
           [nil |-> TRUE, out |-> <<>>, pos |-> p + 1]
      [] Recv(in, p).Type = LexerEOL ->
           ParseSingleInstruction(in, p + 1)
      [] OTHER ->
           NotNil(ParseLabelled(in, OptionalLabel(in, p, Recv(in, p))))

----------------------------------------------------------------------------
(* Package asm: the encoder *)

\* a variant of the range check that lets the value 2^(bits-1) pass
OutOfRangeAboveBound(value, bits) ==
    value < 0 - (2 ^ (bits - 1)) \/ value > 2 ^ (bits - 1)

\* the range check of ResolveImmediate: does the value draw a warning?
OutOfRange(value, bits) ==
    value < 0 - (2 ^ (bits - 1)) \/ value > (2 ^ (bits - 1)) - 1

\* the value of the immediate, after the parse and the lookup
Resolved(value, name, bits, lineno) ==
    [v |-> U16(value), err |-> NoErr,
     log |-> IF OutOfRange(value, bits)
             THEN << [bits |-> bits, name |-> name, lineno |-> lineno] >>
             ELSE <<>>]

ResolveParsed(lmap, name, bits, lineno, parsed) ==
    IF parsed.ok THEN Resolved(parsed.n, name, bits, lineno)
    ELSE IF name \in DOMAIN lmap THEN Resolved(lmap[name], name, bits, lineno)
    ELSE [v |-> 0,
          err |-> Errorf(ErrCannotEncode, "because label is missing", <<>>),
          log |-> <<>>]

\* ResolveImmediate: [v, err, log]; log holds the warning printed, if any
ResolveImmediate(lmap, name, bits, lineno) ==
    ResolveParsed(lmap, name, bits, lineno, ParseInt(name, 64))

\* out |= (opcode & 0b111) << 13; out |= (ia.RA & 0b111) << 10
EncodeOpRA(opcode, ia) ==
    Or16(Shl16(And16(opcode, 7), 13), Shl16(And16(ia.RA, 7), 10))

\* ... out |= (ia.RB & 0b111) << 7
EncodeOpRARB(opcode, ia) ==
    Or16(EncodeOpRA(opcode, ia), Shl16(And16(ia.RB, 7), 7))

Encoded(v) == [v |-> v, err |-> NoErr, log |-> <<>>]

EncodeFailed(imm) == [v |-> 0, err |-> imm.err, log |-> <<>>]

\* out |= imm & 0b111_1111
WithImm7(word, imm) ==
    IF imm.err # NoErr THEN EncodeFailed(imm)
    ELSE [v |-> Or16(word, And16(imm.v, 127)), err |-> NoErr, log |-> imm.log]

\* a variant of the LUI immediate that is not shifted
WithImmLUINotShifted(word, imm) ==
    IF imm.err # NoErr THEN EncodeFailed(imm)
    ELSE [v |-> Or16(word, imm.v), err |-> NoErr, log |-> imm.log]

\* out |= (imm >> 6)
WithImmLUI(word, imm) ==
    IF imm.err # NoErr THEN EncodeFailed(imm)
    ELSE [v |-> Or16(word, Shr(imm.v, 6)), err |-> NoErr, log |-> imm.log]

\* a variant of the LLI immediate that keeps seven bits
WithImmLLISevenBits(word, imm) == WithImm7(word, imm)

\* out |= (imm & 0b11_1111)
WithImmLLI(word, imm) ==
    IF imm.err # NoErr THEN EncodeFailed(imm)
    ELSE [v |-> Or16(word, And16(imm.v, 63)), err |-> NoErr, log |-> imm.log]

InstructionErr_Encode(ia, lmap, pc) ==
    [v |-> 0, err |-> Errorf(ErrCannotEncode, "because this is an error", <<>>),
     log |-> <<>>]

InstructionADD_Encode(ia, lmap, pc) ==
    Encoded(Or16(EncodeOpRARB(OpcodeADD, ia), And16(ia.RC, 7)))

InstructionADDI_Encode(ia, lmap, pc) ==
    WithImm7(EncodeOpRARB(OpcodeADDI, ia),
             ResolveImmediate(lmap, ia.Imm, 7, ia.Lineno))

InstructionNAND_Encode(ia, lmap, pc) ==
    Encoded(Or16(EncodeOpRARB(OpcodeNAND, ia), And16(ia.RC, 7)))

InstructionLUI_Encode(ia, lmap, pc) ==
    WithImmLUI(EncodeOpRA(OpcodeLUI, ia),
               ResolveImmediate(lmap, ia.Imm, 16, ia.Lineno))

InstructionSW_Encode(ia, lmap, pc) ==
    WithImm7(EncodeOpRARB(OpcodeSW, ia),
             ResolveImmediate(lmap, ia.Imm, 7, ia.Lineno))

InstructionLW_Encode(ia, lmap, pc) ==
    WithImm7(EncodeOpRARB(OpcodeLW, ia),
             ResolveImmediate(lmap, ia.Imm, 7, ia.Lineno))

\* a variant of the BEQ encoding that makes the immediate relative to the
\* address after the instruction
InstructionBEQ_EncodeRelative(ia, lmap, pc) ==
    WithImm7(EncodeOpRARB(OpcodeBEQ, ia),
             [ResolveImmediate(lmap, ia.Imm, 7, ia.Lineno) EXCEPT
                !.v = U16(@ + Word - (pc + 1))])

InstructionBEQ_Encode(ia, lmap, pc) ==
    WithImm7(EncodeOpRARB(OpcodeBEQ, ia),
             ResolveImmediate(lmap, ia.Imm, 7, ia.Lineno))

\* a variant of the JALR encoding that leaves the immediate out
InstructionJALR_EncodeWithoutImm(ia, lmap, pc) ==
    Encoded(EncodeOpRARB(OpcodeJALR, ia))

InstructionJALR_Encode(ia, lmap, pc) ==
    Encoded(Or16(EncodeOpRARB(OpcodeJALR, ia), And16(ia.ImmN, 127)))

\* out |= (ia.RA & 0b111) << 7 in the place of RB
InstructionLLI_Encode(ia, lmap, pc) ==
    WithImmLLI(Or16(EncodeOpRA(OpcodeADDI, ia), Shl16(And16(ia.RA, 7), 7)),
               ResolveImmediate(lmap, ia.Imm, 16, ia.Lineno))

InstructionDATA_Encode(ia, lmap, pc) == Encoded(ia.Value)

\* instr.Encode(labels, pc): the method of the instruction's type
Encode(instr, lmap, pc) ==
    CASE instr.kind = "Err"  -> InstructionErr_Encode(instr, lmap, pc)
      [] instr.kind = "ADD"  -> InstructionADD_Encode(instr, lmap, pc)
      [] instr.kind = "ADDI" -> InstructionADDI_Encode(instr, lmap, pc)
      [] instr.kind = "NAND" -> InstructionNAND_Encode(instr, lmap, pc)
      [] instr.kind = "LUI"  -> InstructionLUI_Encode(instr, lmap, pc)
      [] instr.kind = "SW"   -> InstructionSW_Encode(instr, lmap, pc)
      [] instr.kind = "LW"   -> InstructionLW_Encode(instr, lmap, pc)
      [] instr.kind = "BEQ"  -> InstructionBEQ_Encode(instr, lmap, pc)
      [] instr.kind = "JALR" -> InstructionJALR_Encode(instr, lmap, pc)
      [] instr.kind = "LLI"  -> InstructionLLI_Encode(instr, lmap, pc)
      [] instr.kind = "DATA" -> InstructionDATA_Encode(instr, lmap, pc)

----------------------------------------------------------------------------
(* Package asm: AssemblerAsync *)

MaxUint16 == 65535

InstructionOrError(instruction, error, lineno) ==
    [Instruction |-> instruction, Error |-> error, Lineno |-> lineno]

\* make(map[string]int64)
EmptyLabels == [l \in {} |-> 0]

\* the greatest element of a non-empty set of numbers of 1..n
GreatestOf(n, set) == n + 1 - MinOrZero({n + 1 - k : k \in set})

\* a variant of the assignments that keeps the index a label already has
BindLabelledOnce(lmap, i0, batch, labelled) ==
    [l \in (DOMAIN lmap) \cup {batch[k].MaybeLabel[1] : k \in labelled} |->
        IF l \in DOMAIN lmap THEN lmap[l]
        ELSE i0 - 1 + GreatestOf(Len(batch),
                                 {k \in labelled : batch[k].MaybeLabel[1] = l})]

\* the map after the assignments for the labelled instructions of the
\* batch, the last assignment to a label being the one that stays
BindLabelled(lmap, i0, batch, labelled) ==
    [l \in (DOMAIN lmap) \cup {batch[k].MaybeLabel[1] : k \in labelled} |->
        IF \E k \in labelled : batch[k].MaybeLabel[1] = l
        THEN i0 - 1 + GreatestOf(Len(batch),
                                 {k \in labelled : batch[k].MaybeLabel[1] = l})
        ELSE lmap[l]]

\* The first loop's body, run over the instructions one ParseSingleInstruction
\* call delivers (none of them an error): labels[*instr.Label()] = idx for
\* each labelled one, idx++ for each.
BindLabels(lmap, i0, batch) ==
    BindLabelled(lmap, i0, batch,
                 {k \in 1..Len(batch) : batch[k].MaybeLabel # NoLabel})

\* a variant of the check on pc that fires one instruction early
TooManyFromMaxUint16(pc) == pc >= MaxUint16

\* the second loop's check on pc
TooManyInstructions(pc) == pc > MaxUint16

\* the record for an instruction, given what Encode returned: [rec, log]
RecordOf(instr, e) ==
    IF e.err # NoErr
    THEN [rec |-> InstructionOrError(0, e.err, instr.Lineno), log |-> e.log]
    ELSE [rec |-> InstructionOrError(e.v, NoErr, instr.Lineno), log |-> e.log]

\* the second loop's body for an instruction that passes the check on pc
EncodeRecord(instr, lmap, pc) == RecordOf(instr, Encode(instr, lmap, pc))

\* the number of instructions the second loop encodes: those before the
\* first pc that fails the check
LoopLimit(instrs) ==
    LET over == {pc \in 0..(Len(instrs) - 1) : TooManyInstructions(pc)}
    IN  IF over = {} THEN Len(instrs)
        ELSE CHOOSE pc \in over : \A q \in over : pc <= q

LoopRecords(instrs, lmap, limit) ==
    <<>> \o [i \in 1..limit |-> EncodeRecord(instrs[i], lmap, i - 1)]

\* the warnings of the records, in order
LoopLog(recs) ==
    LET warned == SelectSeq(recs, LAMBDA r : r.log # <<>>)
    IN  [i \in 1..Len(warned) |-> warned[i].log[1]]

\* the record sent when the check on pc fails
TooManyRecord(instr) ==
    InstructionOrError(0, Errorf(ErrTooManyInstructions, "", <<>>), instr.Lineno)

\* a variant of the second loop that returns at the first encode error
\* where the loop continues
LoopSentUntilError(instrs, limit, recs) ==
    [out |-> [i \in 1..MinOrZero({j \in 1..limit : recs[j].rec.Error # NoErr}
                                 \cup {limit}) |-> recs[i].rec],
     log |-> LoopLog(recs)]

\* what the loop has sent and printed when it ends: [out, log]
LoopSent(instrs, limit, recs) ==
    [out |-> [i \in 1..limit |-> recs[i].rec]
             \o (IF limit < Len(instrs)
                 THEN <<TooManyRecord(instrs[limit + 1])>>
                 ELSE <<>>),
     log |-> LoopLog(recs)]

LoopUpTo(instrs, lmap, limit) ==
    LoopSent(instrs, limit, LoopRecords(instrs, lmap, limit))

\* The second loop, run to its end: [out, log].  It sends one record for
\* each instruction that passes the check on pc, whether Encode failed or
\* not, then the too-many diagnostic for the first that fails the check.
SecondLoop(instrs, lmap) == LoopUpTo(instrs, lmap, LoopLimit(instrs))

\* a variant of the first loop's body that drops an error instruction and
\* goes on
FirstLoopBodySkipping(in, a, r) ==
    IF r.nil
    THEN [a EXCEPT !.at = "end", !.pos = r.pos]
    ELSE IF r.out[1].Error # NoErr
    THEN [a EXCEPT !.pos = r.pos]
    ELSE [a EXCEPT !.at = "more", !.pos = r.pos,
                   !.idx = a.idx + Len(r.out),
                   !.labels = BindLabels(a.labels, a.idx, r.out),
                   !.instructions = a.instructions \o r.out]

\* the first loop's body for what the parser delivered
FirstLoopBody(in, a, r) ==
    IF r.nil
    THEN [a EXCEPT !.at = "end", !.pos = r.pos]
    ELSE IF r.out[1].Error # NoErr
    THEN [a EXCEPT !.at = "error", !.pos = Len(in) + 1,
                   !.diag = <<InstructionOrError(0, r.out[1].Error,
                                                 r.out[1].Lineno)>>]
    ELSE [a EXCEPT !.at = "more", !.pos = r.pos,
                   !.idx = a.idx + Len(r.out),
                   !.labels = BindLabels(a.labels, a.idx, r.out),
                   !.instructions = a.instructions \o r.out]

\* One iteration of the first loop: a receive from the parser, which is one
\* ParseSingleInstruction call and the instructions it delivers.
\* [at, pos, idx, labels, instructions, diag]; at is "end" when the parser's
\* channel is closed, "error" when the instruction is an error, else "more".
FirstLoopStep(in, a) == FirstLoopBody(in, a, ParseSingleInstruction(in, a.pos))

FirstLoopStart ==
    [at |-> "more", pos |-> 1, idx |-> 0, labels |-> EmptyLabels,
     instructions |-> <<>>, diag |-> <<>>]

RECURSIVE FirstLoop(_, _)
FirstLoop(in, a) ==
    IF a.at # "more" THEN a ELSE FirstLoop(in, FirstLoopStep(in, a))

\* what the assembler has sent when it returns
AssemblerSent(a) ==
    IF a.at = "error" THEN a.diag
    ELSE SecondLoop(a.instructions, a.labels).out

\* AssemblerAsync on the given lines: the records sent on the out channel
AssemblerAsync(lines) ==
    AssemblerSent(FirstLoop(LexAsync(lines), FirstLoopStart))

----------------------------------------------------------------------------
(* How the state keeps the slice of instructions and the records sent: as  *)
(* runs [item, count] of equal consecutive elements, so that the 65535     *)
(* equal words of a .space take one run.  Unpack(Pack(s)) = s: every       *)
(* operator of the assembler works on the unpacked sequence.               *)

\* the elements of a finite set of numbers in increasing order
RECURSIVE Ascending(_)
Ascending(set) ==
    IF set = {} THEN <<>>
    ELSE <<MinOrZero(set)>> \o Ascending(set \ {MinOrZero(set)})

\* the runs that start at the indices starts
PackFrom(seq, starts) ==
    [k \in 1..Len(starts) |->
        [item  |-> seq[starts[k]],
         count |-> (IF k < Len(starts) THEN starts[k + 1] ELSE Len(seq) + 1)
                   - starts[k]]]

Pack(seq) ==
    PackFrom(seq, Ascending({i \in 1..Len(seq) : i = 1 \/ seq[i] # seq[i - 1]}))

RECURSIVE Unpack(_)
Unpack(runs) ==
    IF runs = <<>> THEN <<>>
    ELSE Unpack(SubSeq(runs, 1, Len(runs) - 1))
         \o [i \in 1..runs[Len(runs)].count |-> runs[Len(runs)].item]

----------------------------------------------------------------------------
(* Source lines *)

L_add == <<"a","d","d"," ","r","1"," ","r","2"," ","r","3">>
L_add_short == <<"a","d","d"," ","r","1"," ","r","2">>
L_unknown == <<"f","o","o"," ","r","1">>
L_halt_extra == <<"h","a","l","t"," ","r","1">>
L_nop_invalid == <<"n","o","p"," ","@">>
L_movi == <<"L",":"," ","m","o","v","i"," ","r","1"," ","5">>
L_space == <<"M",":"," ",".","s","p","a","c","e"," ","2">>
L_space_zero == <<".","s","p","a","c","e"," ","0">>
L_beq == <<"b","e","q"," ","r","0"," ","r","0"," ","M">>
L_addi_missing == <<"a","d","d","i"," ","r","1"," ","r","0"," ","X">>
L_halt == <<"h","a","l","t">>
L_comment == <<"#"," ","c">>
L_nop == <<"n","o","p">>
L_space_max == <<"M",":"," ",".","s","p","a","c","e"," ","6","5","5","3","5">>
L_long == <<>> \o [i \in 1..MaxScanTokenSize |-> "#"]

\* the lines the assembled programs are made of
Lines ==
    { L_add, L_add_short, L_unknown, L_halt_extra, L_nop_invalid, L_movi,
      L_space, L_space_zero, L_beq, L_addi_missing, L_halt, L_comment }

\* the lines of the programs that reach the limit on the number of
\* instructions
BigLines == { L_space_max, L_nop, L_movi, L_space, L_space_zero, L_long }

Programs(lines, n) == UNION { [1..k -> lines] : k \in 0..n }

\* cmd/vm: machine.M[addr] = uint16(value) for each word, from address 0
Load(words) == [a \in 0..(Len(words) - 1) |-> words[a + 1]]

\* the words of an assembly the driver prints without a fatal error
WordsOf(records) == [i \in 1..Len(records) |-> records[i].Instruction]

----------------------------------------------------------------------------
(* Memory images the machine is started with *)

\* words of every opcode, with r0 and other registers as destination
ImageWords ==
    { 57457,   \* e071 jalr r0 r0 0x71 (halt)
      57344,   \* e000 jalr r0 r0 0
      57345,   \* e001 jalr r0 r0 1
      58624,   \* e500 jalr r1 r2
      57472,   \* e080 jalr r0 r1
      9221,    \* 2405 addi r1 r0 5
      8256,    \* 2040 addi r0 r0 -64
      0,       \* 0000 add r0 r0 r0
      17408,   \* 4400 nand r1 r0 r0
      24577,   \* 6001 lui r0 1
      33793,   \* 8401 sw r1 r0 1
      40961,   \* a001 lw r0 r0 1
      49278,   \* c07e beq r0 r0 -2
      50179,   \* c403 beq r1 r0 3
      58496,   \* e480 jalr r1 r1
      34047,   \* 84ff sw r1 r1 -1
      43263,   \* a8ff lw r2 r1 -1
      1153,    \* 0481 add r1 r1 r1
      9471,    \* 24ff addi r1 r1 -1
      25601 }  \* 6401 lui r1 1

RawImages == UNION { [0..(n - 1) -> ImageWords] : n \in 0..ImageLen }

\* the images the assembler produces
AssembledImages == { Load(WordsOf(AssemblerAsync(<<L_halt>>))) }

----------------------------------------------------------------------------
(* The machine as a state machine: new(vm.VM), then Fetch and Execute calls *)

\* no close call has been made
NoClose == [tokens |-> 0, instructions |-> 0, out |-> 0]

\* StartAssembler has not been called: there is no goroutine
GoOff ==
    /\ lexing = [pc |-> "off", tokens |-> <<>>]
    /\ parsing = [pc |-> "off", need |-> 0, calls |-> <<>>, instr |-> <<>>]
    /\ assembling = [pc |-> "off", records |-> <<>>,
                    second |-> [out |-> <<>>, log |-> <<>>]]
    /\ closes = NoClose

AsmIdle ==
    /\ GoOff
    /\ src = <<>>
    /\ pos = 1
    /\ idx = 0
    /\ labels = EmptyLabels
    /\ instructions = <<>>
    /\ out = <<>>
    /\ log = <<>>
    /\ phase = "idle"

VMNew ==
    /\ CI = 0
    /\ GPR = [r \in 0..(NumRegisters - 1) |-> 0]
    /\ PC = 0
    /\ ret = "nil"
    /\ op = "new"
    /\ steps = 0

InitVM ==
    /\ VMNew
    /\ \/ M \in RawImages
       \/ M \in AssembledImages
    /\ AsmIdle

Fetch ==
    /\ op \in {"new", "Fetch", "Execute"}
    /\ steps < MaxSteps
    /\ LET vm == FetchVM(TheVM)
       IN  /\ CI' = vm.CI
           /\ PC' = vm.PC
           /\ GPR' = vm.GPR
           /\ M' = vm.M
    /\ op' = "Fetch"
    /\ steps' = steps + 1
    /\ UNCHANGED ret
    /\ UNCHANGED asmvars

Execute ==
    /\ op \in {"new", "Fetch", "Execute"}
    /\ steps < MaxSteps
    /\ LET r == ExecuteVM(TheVM)
       IN  /\ CI' = r.vm.CI
           /\ PC' = r.vm.PC
           /\ GPR' = r.vm.GPR
           /\ M' = r.vm.M
           /\ ret' = r.err
    /\ op' = "Execute"
    /\ steps' = steps + 1
    /\ UNCHANGED asmvars

NextVM == Fetch \/ Execute

Spec == InitVM /\ [][NextVM]_vars

----------------------------------------------------------------------------
(* The assembler as a state machine: AssemblerAsync on the lines of src.   *)
(* The lexer and the parser are deterministic producers the assembler      *)
(* pulls from, so a step of the first loop is one receive of the           *)
(* instructions of a ParseSingleInstruction call.                          *)

VMOff ==
    /\ CI = 0
    /\ GPR = [r \in 0..(NumRegisters - 1) |-> 0]
    /\ M = Load(<<>>)
    /\ PC = 0
    /\ ret = "nil"
    /\ op = "off"
    /\ steps = 0

\* AssemblerAsync at its first statement, on one of the given programs
AsmFresh(programs) ==
    /\ src \in programs
    /\ pos = FirstLoopStart.pos
    /\ idx = FirstLoopStart.idx
    /\ labels = FirstLoopStart.labels
    /\ instructions = Pack(FirstLoopStart.instructions)
    /\ out = <<>>
    /\ log = <<>>
    /\ phase = "pass1"

AsmStart(programs) == AsmFresh(programs) /\ GoOff

InitAsm == VMOff /\ AsmStart(Programs(Lines, MaxLines))

InitBig == VMOff /\ AsmStart(Programs(BigLines, MaxBigLines))

\* the first loop's next iteration
FirstLoopNext ==
    FirstLoopStep(LexAsync(src),
                  [at |-> "more", pos |-> pos, idx |-> idx, labels |-> labels,
                   instructions |-> Unpack(instructions), diag |-> <<>>])

\* the first loop receives instructions that are not errors
Pass1Instructions ==
    /\ phase = "pass1"
    /\ \E a \in {FirstLoopNext} :
          /\ a.at = "more"
          /\ pos' = a.pos
          /\ idx' = a.idx
          /\ labels' = a.labels
          /\ instructions' = Pack(a.instructions)
    /\ UNCHANGED <<src, out, log, phase>>
    /\ UNCHANGED govars
    /\ UNCHANGED vmvars

\* the first loop receives an error instruction: it sends the diagnostic
\* and returns; the parser drains the lexer
Pass1Error ==
    /\ phase = "pass1"
    /\ \E a \in {FirstLoopNext} :
          /\ a.at = "error"
          /\ out' = Pack(Unpack(out) \o a.diag)
          /\ pos' = a.pos
    /\ phase' = "aborted"
    /\ UNCHANGED <<src, idx, labels, instructions, log>>
    /\ UNCHANGED govars
    /\ UNCHANGED vmvars

\* the parser's channel is closed: the first loop ends
Pass1End ==
    /\ phase = "pass1"
    /\ \E a \in {FirstLoopNext} :
          /\ a.at = "end"
          /\ pos' = a.pos
    /\ phase' = "pass2"
    /\ UNCHANGED <<src, idx, labels, instructions, out, log>>
    /\ UNCHANGED govars
    /\ UNCHANGED vmvars

\* the second loop
Pass2 ==
    /\ phase = "pass2"
    /\ \E r \in {SecondLoop(Unpack(instructions), labels)} :
          /\ out' = Pack(Unpack(out) \o r.out)
          /\ log' = log \o r.log
    /\ phase' = "done"
    /\ UNCHANGED <<src, pos, idx, labels, instructions>>
    /\ UNCHANGED govars
    /\ UNCHANGED vmvars

NextAsm == Pass1Instructions \/ Pass1Error \/ Pass1End \/ Pass2

SpecAsm == InitAsm /\ [][NextAsm]_vars

SpecBig == InitBig /\ [][NextAsm]_vars

----------------------------------------------------------------------------
(* Source lines built from a mnemonic, operand texts and the text before   *)
(* each operand                                                            *)

N_add == <<"a","d","d">>
N_addi == <<"a","d","d","i">>
N_nand == <<"n","a","n","d">>
N_lui == <<"l","u","i">>
N_sw == <<"s","w">>
N_lw == <<"l","w">>
N_beq == <<"b","e","q">>
N_jalr == <<"j","a","l","r">>
N_nop == <<"n","o","p">>
N_halt == <<"h","a","l","t">>
N_lli == <<"l","l","i">>
N_movi == <<"m","o","v","i">>
N_fill == <<".","f","i","l","l">>
N_space == <<".","s","p","a","c","e">>

\* the operands each mnemonic's parser reads: "R" a register, "I" an
\* immediate
Mnemonics ==
    { [name |-> N_add,   shape |-> <<"R", "R", "R">>],
      [name |-> N_nand,  shape |-> <<"R", "R", "R">>],
      [name |-> N_addi,  shape |-> <<"R", "R", "I">>],
      [name |-> N_sw,    shape |-> <<"R", "R", "I">>],
      [name |-> N_lw,    shape |-> <<"R", "R", "I">>],
      [name |-> N_beq,   shape |-> <<"R", "R", "I">>],
      [name |-> N_lui,   shape |-> <<"R", "I">>],
      [name |-> N_lli,   shape |-> <<"R", "I">>],
      [name |-> N_movi,  shape |-> <<"R", "I">>],
      [name |-> N_jalr,  shape |-> <<"R", "R">>],
      [name |-> N_fill,  shape |-> <<"I">>],
      [name |-> N_space, shape |-> <<"I">>],
      [name |-> N_nop,   shape |-> <<>>],
      [name |-> N_halt,  shape |-> <<>>] }

RECURSIVE JoinFrom(_, _, _)
JoinFrom(ops, seps, i) ==
    IF i > Len(ops) THEN <<>>
    ELSE seps[i] \o ops[i] \o JoinFrom(ops, seps, i + 1)

\* the line: the mnemonic, then each operand after its separator
Join(name, ops, seps) == name \o JoinFrom(ops, seps, 1)

\* register names, and other texts in the place of a register
RegTexts == { <<"r","0">>, <<"r","1">>, <<"r","7">> }
OtherRegTexts == { <<"3">>, <<"r","8">>, <<"r","r","1">>, <<"r">> }

\* immediates: decimal literals by value, a hexadecimal and an octal
\* literal, a literal one above the greatest int64, an undefined label
ImmValues ==
    { 0, 5, 0 - 5, 63, 64, 0 - 64, 0 - 65, 200, 4660, 32767, 32768, 65535,
      0 - 1, 0 - 32768, 0 - 32769, 70000 }
I_hex == <<"0","x","1","2","3","4">>
I_octal == <<"0","1","7">>
I_missing == <<"X">>
ImmTexts ==
    { FormatInt(v) : v \in ImmValues } \cup { I_hex, I_octal, MinInt64Text, I_missing }

\* the counts of the .space lines
SpaceTexts == { <<"0">>, <<"2">>, <<"5">>, <<"-","5">>, I_octal, I_missing }

\* the text before an operand
Blank == <<" ">>
Separators == { Blank, <<",">>, <<",", " ">> }

\* the operand texts the lines of a mnemonic are built from
OperandTexts(m, i) ==
    IF m.shape[i] = "R" THEN RegTexts
    ELSE IF m.name = N_space THEN SpaceTexts
    ELSE ImmTexts

\* the operands of the lines whose separators vary
BaseOperand(m, i) ==
    IF m.shape[i] = "R" THEN <<"r", DigitChar(i)>> ELSE <<"5">>

Blanks(m) == [i \in 1..Len(m.shape) |-> Blank]
BaseOperands(m) == [i \in 1..Len(m.shape) |-> BaseOperand(m, i)]

\* every choice of operand texts, a blank before each
OperandLines(m) ==
    { Join(m.name, ops, Blanks(m)) :
        ops \in { o \in [1..Len(m.shape) -> RegTexts \cup ImmTexts \cup SpaceTexts] :
                    \A i \in 1..Len(m.shape) : o[i] \in OperandTexts(m, i) } }

\* one register replaced by a text that is not a register name
OtherRegLines(m) ==
    { Join(m.name, [BaseOperands(m) EXCEPT ![i] = t], Blanks(m)) :
        i \in { j \in 1..Len(m.shape) : m.shape[j] = "R" }, t \in OtherRegTexts }

\* every choice of separators
SeparatorLines(m) ==
    { Join(m.name, BaseOperands(m), seps) :
        seps \in [1..Len(m.shape) -> Separators] }

TextLines ==
    UNION { OperandLines(m) \cup OtherRegLines(m) \cup SeparatorLines(m) :
            m \in Mnemonics }

\* lines that define and use labels
L_label_only == <<"L",":">>
L_label_nop == <<"L",":"," ","n","o","p">>
L_beq_L == <<"b","e","q"," ","r","0"," ","r","0"," ","L">>
L_lui_L == <<"l","u","i"," ","r","1"," ","L">>
L_addi_M == <<"a","d","d","i"," ","r","1"," ","r","0"," ","M">>
L_space_64 == <<".","s","p","a","c","e"," ","6","4">>

LabelLines ==
    { L_label_only, L_label_nop, L_beq_L, L_lui_L, L_addi_M, L_space, L_space_64, L_add }

MaxTextLines == 3

\* lines with a character no rule of the lexer matches, outside and inside
\* a comment
L_at == <<"@">>
L_add_at == <<"a","d","d"," ","r","1"," ","r","2"," ","r","3"," ","@"," ","r","4">>
L_label_at == <<"L",":"," ","@">>
L_nop_comment_at == <<"n","o","p"," ","#"," ","@">>

InvalidLines == { L_at, L_add_at, L_label_at, L_nop_invalid }

MaxInvalidLines == 2

InvalidPrograms ==
    Programs(InvalidLines \cup {L_nop_comment_at, L_add}, MaxInvalidLines)

\* .fill with a label that the program defines, before or after the line
L_fill_L == <<".","f","i","l","l"," ","L">>

FillLabelPrograms ==
    { <<L_fill_L>>, <<L_label_nop, L_fill_L>>, <<L_fill_L, L_label_nop>> }

\* `L: nop` twice, with a line before, between and after the two
DuplicateLines == {L_beq_L, L_lui_L, L_add, L_space_64}

DuplicatePrograms ==
    { <<a, L_label_nop, b, L_label_nop, c>> : a, b, c \in DuplicateLines }

TextPrograms ==
    { <<line>> : line \in TextLines } \cup Programs(LabelLines, MaxTextLines)
    \cup InvalidPrograms \cup FillLabelPrograms \cup DuplicatePrograms

----------------------------------------------------------------------------
(* The assembler on the programs of TextPrograms, and cmd/vm's verbose     *)
(* mode on a word it sent: the word is the one-word image, Fetch makes it  *)
(* the current instruction and the log line shows Disassemble(machine.CI); *)
(* that text is then assembled as a one-line source.                       *)

InitText == VMOff /\ AsmStart(TextPrograms)

\* the words sent, without repetition
SentWords == { out[k].item.Instruction : k \in { j \in 1..Len(out) : out[j].item.Error = NoErr } }

Disassembled ==
    /\ phase = "done"
    /\ op = "off"
    /\ \E w \in SentWords :
          /\ M' = Load(<<w>>)
          /\ CI' = FetchVM([TheVM EXCEPT !.M = Load(<<w>>)]).CI
          /\ PC' = FetchVM([TheVM EXCEPT !.M = Load(<<w>>)]).PC
          /\ src' = << Disassemble(FetchVM([TheVM EXCEPT !.M = Load(<<w>>)]).CI) >>
    /\ op' = "Disassemble"
    /\ pos' = FirstLoopStart.pos
    /\ idx' = FirstLoopStart.idx
    /\ labels' = FirstLoopStart.labels
    /\ instructions' = Pack(FirstLoopStart.instructions)
    /\ out' = <<>>
    /\ log' = <<>>
    /\ phase' = "pass1"
    /\ UNCHANGED <<GPR, ret, steps>>
    /\ UNCHANGED govars

NextText == NextAsm \/ Disassembled

SpecText == InitText /\ [][NextText]_vars

----------------------------------------------------------------------------
(* cmd/asm and then cmd/vm on what it printed: the assembler runs on a     *)
(* program, the machine is loaded with the words and runs Fetch and        *)
(* Execute in turn until Execute returns an error.                         *)

\* the registers and the values of the movi lines
MoviRegisters == 1..(NumRegisters - 1)
MoviValues ==
    { 0, 1, 63, 64, 127, 4660, 32767, 32768, 65535, 0 - 1, 0 - 64, 0 - 32768 }

MoviLine(ra, v) == N_movi \o SprintR(ra) \o SprintD(v)

\* lines that leave 0xFFFF and 21 in the register
NandLine(ra) == N_nand \o SprintR(ra) \o <<" ","r","0"," ","r","0">>
AddiLine(ra) == N_addi \o SprintR(ra) \o <<" ","r","0"," ","2","1">>

\* what runs before the movi
Before(ra) == { <<>>, <<NandLine(ra)>>, <<AddiLine(ra)>> }

MoviProgram(before, ra, v) == before \o <<MoviLine(ra, v), L_halt>>

MoviPrograms ==
    { MoviProgram(before, ra, v) :
        before \in UNION { Before(r) : r \in MoviRegisters },
        ra \in MoviRegisters, v \in MoviValues }

FillProgram ==
    << <<"f","o","o",":"," ",".","f","i","l","l"," ","7">>,
       <<"m","a","i","n",":"," ","l","w"," ","r","1"," ","r","0"," ","f","o","o">>,
       L_halt >>

HexProgram == << <<"m","o","v","i"," ","r","1"," ","0","x","1","2","3","4">>, L_halt >>

\* lines of programs that branch
L_start_add == <<"s","t","a","r","t",":"," ","a","d","d"," ","r","1"," ","r","0"," ","r","0">>
L_addi_inc == <<"a","d","d","i"," ","r","1"," ","r","1"," ","1">>
L_beq_start == <<"b","e","q"," ","r","0"," ","r","0"," ","s","t","a","r","t">>
L_beq_back == <<"b","e","q"," ","r","0"," ","r","0"," ","-","3">>

BeqLines == { L_start_add, L_addi_inc, L_beq_start, L_beq_back, L_halt }

MaxBeqLines == 3

BeqPrograms == Programs(BeqLines, MaxBeqLines)

RunPrograms == MoviPrograms \cup BeqPrograms \cup { FillProgram, HexProgram }

InitRun == VMOff /\ AsmStart(RunPrograms)

\* cmd/asm ended without a fatal error: every record printed is a word
Printed == phase = "done" /\ \A k \in 1..Len(out) : out[k].item.Error = NoErr

\* cmd/vm: machine := new(vm.VM), then the load loop
LoadImage ==
    /\ Printed
    /\ op = "off"
    /\ M' = Load(WordsOf(Unpack(out)))
    /\ CI' = 0
    /\ GPR' = [r \in 0..(NumRegisters - 1) |-> 0]
    /\ PC' = 0
    /\ ret' = "nil"
    /\ op' = "new"
    /\ steps' = 0
    /\ UNCHANGED asmvars

\* the run loop: machine.Fetch() at the start of each iteration
RunFetch ==
    /\ phase = "done"
    /\ op \in {"new", "Execute"}
    /\ ret = "nil"
    /\ Fetch

\* the run loop: machine.Execute() after the Fetch
RunExecute ==
    /\ phase = "done"
    /\ op = "Fetch"
    /\ Execute

NextRun == NextAsm \/ LoadImage \/ RunFetch \/ RunExecute

SpecRun == InitRun /\ [][NextRun]_vars

----------------------------------------------------------------------------
(* cmd/vm's run loop without a limit on its iterations, on programs that   *)
(* clear a register, increment it and branch back to the start.  The loop  *)
(* is sequential code that always takes its next step, hence the weak      *)
(* fairness of its two steps.                                              *)

StartLine(ra) ==
    <<"s","t","a","r","t",":"," ">> \o N_add \o SprintR(ra)
    \o <<" ","r","0"," ","r","0">>

IncLine(ra) == N_addi \o SprintR(ra) \o SprintR(ra) \o <<" ","1">>

BackLine(n) == N_beq \o <<" ","r","0"," ","r","0">> \o SprintD(0 - n)

\* the greatest number of increments in the body of a loop
MaxLoopBody == 2

\* clear ra, increment it body times, branch back to address 0
LoopProgram(ra, body) ==
    <<StartLine(ra)>> \o [i \in 1..body |-> IncLine(ra)]
    \o <<BackLine(body + 2)>>

LoopFamily ==
    { LoopProgram(ra, body) : ra \in MoviRegisters, body \in 0..MaxLoopBody }

\* the loop with a halt in place of the branch
HaltingProgram == <<L_start_add, L_addi_inc, L_halt>>

LoopPrograms == LoopFamily \cup { HaltingProgram, HexProgram }

InitLoop == VMOff /\ AsmStart(LoopPrograms)

\* machine.Fetch() at the start of an iteration of the run loop
LoopFetch ==
    /\ phase = "done"
    /\ op \in {"new", "Execute"}
    /\ ret = "nil"
    /\ LET vm == FetchVM(TheVM)
       IN  /\ CI' = vm.CI
           /\ PC' = vm.PC
           /\ GPR' = vm.GPR
           /\ M' = vm.M
    /\ op' = "Fetch"
    /\ UNCHANGED <<ret, steps>>
    /\ UNCHANGED asmvars

\* machine.Execute() after the Fetch; the loop ends when it returns an error
LoopExecute ==
    /\ phase = "done"
    /\ op = "Fetch"
    /\ LET r == ExecuteVM(TheVM)
       IN  /\ CI' = r.vm.CI
           /\ PC' = r.vm.PC
           /\ GPR' = r.vm.GPR
           /\ M' = r.vm.M
           /\ ret' = r.err
    /\ op' = "Execute"
    /\ UNCHANGED steps
    /\ UNCHANGED asmvars

NextLoop == NextAsm \/ LoadImage \/ LoopFetch \/ LoopExecute

SpecLoop ==
    InitLoop /\ [][NextLoop]_vars /\ WF_vars(LoopFetch) /\ WF_vars(LoopExecute)

----------------------------------------------------------------------------
(* StartAssembler as three goroutines and three unbuffered channels: the   *)
(* lexer sends tokens to the parsing, the parser sends instructions to the  *)
(* assembling, the assembler sends records to a consumer that receives      *)
(* until the channel is closed.  A send and its receive are one step.      *)
(* What each goroutine computes is fixed by the input; it is computed at   *)
(* the start as the tokens the lexer has to send, the                      *)
(* ParseSingleInstruction calls of the parser on these tokens, and what    *)
(* the second loop sends for the parsed instructions.  The steps below are *)
(* the channel operations, the returns and the deferred functions.         *)

L_blank == <<>>

GoLines ==
    { L_add, L_movi, L_add_short, L_nop_invalid, L_comment, L_halt, L_blank }

MaxGoLines == 3

\* a line the scanner does not deliver, between two lines it does
LongProgram == <<L_add, L_long, L_add>>

GoPrograms == Programs(GoLines, MaxGoLines) \cup { LongProgram }

\* the ParseSingleInstruction calls ParseAsync's loop would make on the
\* tokens `in` from position p on, up to the call that returns nil: for
\* each call the number of receives it makes and what it returns
RECURSIVE ParserCalls(_, _)
ParserCalls(in, p) ==
    LET r == ParseSingleInstruction(in, p)
    IN  << [recvs |-> r.pos - p, nil |-> r.nil, out |-> r.out] >>
        \o (IF r.nil THEN <<>> ELSE ParserCalls(in, r.pos))

\* what the second loop sends and prints for the instructions of the lines,
\* if the first loop ends without an error
SecondLoopOf(lines) ==
    LET a == FirstLoop(LexAsync(lines), FirstLoopStart)
    IN  IF a.at = "error" THEN [out |-> <<>>, log |-> <<>>]
        ELSE SecondLoop(a.instructions, a.labels)

\* StartAssembler, StartParsing, StartLexing: the channels are made and the
\* goroutines started
GoStart ==
    /\ lexing = [pc |-> "send", tokens |-> LexAsync(src)]
    /\ parsing = [pc |-> "recv",
                 need |-> ParserCalls(LexAsync(src), 1)[1].recvs,
                 calls |-> ParserCalls(LexAsync(src), 1),
                 instr |-> <<>>]
    /\ assembling = [pc |-> "recv", records |-> <<>>,
                    second |-> SecondLoopOf(src)]
    /\ closes = NoClose

InitGo == VMOff /\ AsmFresh(GoPrograms) /\ GoStart

\* append(slice, item) on a slice kept as runs
AppendRun(runs, item) ==
    IF runs # <<>> /\ runs[Len(runs)].item = item
    THEN [runs EXCEPT ![Len(runs)].count = @ + 1]
    ELSE Append(runs, [item |-> item, count |-> 1])

\* the lexer is blocked in a send on the token channel
TokenReady == lexing.pc = "send" /\ lexing.tokens # <<>>

\* the lexer after its send was received
LexerSent == [lexing EXCEPT !.tokens = Tail(@)]

\* LexAsync: the scanner's loop has ended, the deferred close(out) runs
LexerClose ==
    /\ lexing.pc = "send"
    /\ lexing.tokens = <<>>
    /\ lexing' = [lexing EXCEPT !.pc = "done"]
    /\ closes' = [closes EXCEPT !.tokens = @ + 1]
    /\ UNCHANGED <<parsing, assembling>>
    /\ UNCHANGED <<src, pos, idx, labels, instructions, out, log, phase>>
    /\ UNCHANGED vmvars

\* token := <-in inside ParseSingleInstruction: the lexing's send is
\* received, or the channel is closed and the zero value is received
ParserReceive ==
    /\ parsing.pc = "recv"
    /\ parsing.need > 0
    /\ \/ TokenReady /\ lexing' = LexerSent
       \/ closes.tokens > 0 /\ UNCHANGED lexing
    /\ parsing' = [parsing EXCEPT !.need = @ - 1]
    /\ pos' = pos + 1
    /\ UNCHANGED <<assembling, closes>>
    /\ UNCHANGED <<src, idx, labels, instructions, out, log, phase>>
    /\ UNCHANGED vmvars

\* ParseSingleInstruction returns: nil ends ParseAsync, whose deferred
\* function starts; else the instructions are to be sent
ParserReturns ==
    /\ parsing.pc = "recv"
    /\ parsing.need = 0
    /\ parsing' = IF Head(parsing.calls).nil
                 THEN [parsing EXCEPT !.pc = "drain"]
                 ELSE [parsing EXCEPT !.pc = "send",
                                     !.instr = Head(parsing.calls).out,
                                     !.calls = Tail(@)]
    /\ UNCHANGED <<lexing, assembling, closes>>
    /\ UNCHANGED <<src, pos, idx, labels, instructions, out, log, phase>>
    /\ UNCHANGED vmvars

\* the parser after out <- i: it returns if i is an error, else goes on with
\* the next instruction or the next ParseSingleInstruction call
ParserAfterSend(i) ==
    IF i.Error # NoErr
    THEN [parsing EXCEPT !.pc = "drain", !.instr = <<>>]
    ELSE IF Tail(parsing.instr) = <<>>
    THEN [parsing EXCEPT !.pc = "recv", !.need = Head(parsing.calls).recvs,
                        !.instr = <<>>]
    ELSE [parsing EXCEPT !.instr = Tail(@)]

\* out <- i in ParseAsync, received by the first loop of AssemblerAsync,
\* which runs its body: an error is turned into the diagnostic to send,
\* another instruction binds its label and is appended
ParserSend ==
    /\ parsing.pc = "send"
    /\ assembling.pc = "recv"
    /\ parsing' = ParserAfterSend(Head(parsing.instr))
    /\ \E i \in {Head(parsing.instr)} :
          IF i.Error # NoErr
          THEN /\ assembling' =
                     [assembling EXCEPT
                        !.pc = "diag",
                        !.records = <<InstructionOrError(0, i.Error, i.Lineno)>>]
               /\ UNCHANGED <<idx, labels, instructions>>
          ELSE /\ labels' = BindLabels(labels, idx, <<i>>)
               /\ instructions' = AppendRun(instructions, i)
               /\ idx' = idx + 1
               /\ UNCHANGED assembling
    /\ UNCHANGED <<lexing, closes>>
    /\ UNCHANGED <<src, pos, out, log, phase>>
    /\ UNCHANGED vmvars

\* a variant of the deferred function that does not drain the channel
ParserDrainSkipped ==
    /\ parsing.pc = "drain"
    /\ parsing' = [parsing EXCEPT !.pc = "close"]
    /\ UNCHANGED <<lexing, pos>>
    /\ UNCHANGED <<assembling, closes>>
    /\ UNCHANGED <<src, idx, labels, instructions, out, log, phase>>
    /\ UNCHANGED vmvars

\* the deferred function of ParseAsync: for range in, which receives until
\* the channel is closed
ParserDrain ==
    /\ parsing.pc = "drain"
    /\ \/ /\ TokenReady
          /\ lexing' = LexerSent
          /\ pos' = pos + 1
          /\ UNCHANGED parsing
       \/ /\ closes.tokens > 0
          /\ parsing' = [parsing EXCEPT !.pc = "close"]
          /\ UNCHANGED <<lexing, pos>>
    /\ UNCHANGED <<assembling, closes>>
    /\ UNCHANGED <<src, idx, labels, instructions, out, log, phase>>
    /\ UNCHANGED vmvars

\* the deferred function of ParseAsync: close(out)
ParserClose ==
    /\ parsing.pc = "close"
    /\ parsing' = [parsing EXCEPT !.pc = "done"]
    /\ closes' = [closes EXCEPT !.instructions = @ + 1]
    /\ UNCHANGED <<lexing, assembling>>
    /\ UNCHANGED <<src, pos, idx, labels, instructions, out, log, phase>>
    /\ UNCHANGED vmvars

\* a variant of the range that ends while the channel is still open
AssemblerRangeEndsEarly ==
    /\ assembling.pc = "recv"
    /\ assembling' = [assembling EXCEPT !.pc = "send",
                                      !.records = assembling.second.out]
    /\ log' = log \o assembling.second.log
    /\ phase' = "pass2"
    /\ UNCHANGED <<lexing, parsing, closes>>
    /\ UNCHANGED <<src, pos, idx, labels, instructions, out>>
    /\ UNCHANGED vmvars

\* the range over the parsing's channel ends, the channel being closed: the
\* second loop starts
AssemblerRangeEnds ==
    /\ assembling.pc = "recv"
    /\ closes.instructions > 0
    /\ assembling' = [assembling EXCEPT !.pc = "send",
                                      !.records = assembling.second.out]
    /\ log' = log \o assembling.second.log
    /\ phase' = "pass2"
    /\ UNCHANGED <<lexing, parsing, closes>>
    /\ UNCHANGED <<src, pos, idx, labels, instructions, out>>
    /\ UNCHANGED vmvars

\* the first loop's out <- InstructionOrError{Error: ...}, received by the
\* consumer; the assembler returns
AssemblerSendDiag ==
    /\ assembling.pc = "diag"
    /\ out' = AppendRun(out, Head(assembling.records))
    /\ assembling' = [assembling EXCEPT !.pc = "close", !.records = <<>>]
    /\ phase' = "aborted"
    /\ UNCHANGED <<lexing, parsing, closes>>
    /\ UNCHANGED <<src, pos, idx, labels, instructions, log>>
    /\ UNCHANGED vmvars

\* a send of the second loop, received by the consumer; after the last the
\* assembler returns
AssemblerSend ==
    /\ assembling.pc = "send"
    /\ IF assembling.records = <<>>
       THEN /\ assembling' = [assembling EXCEPT !.pc = "close"]
            /\ phase' = "done"
            /\ UNCHANGED out
       ELSE /\ out' = AppendRun(out, Head(assembling.records))
            /\ assembling' = [assembling EXCEPT !.records = Tail(@)]
            /\ UNCHANGED phase
    /\ UNCHANGED <<lexing, parsing, closes>>
    /\ UNCHANGED <<src, pos, idx, labels, instructions, log>>
    /\ UNCHANGED vmvars

\* the deferred close(out) of AssemblerAsync
AssemblerClose ==
    /\ assembling.pc = "close"
    /\ assembling' = [assembling EXCEPT !.pc = "done"]
    /\ closes' = [closes EXCEPT !.out = @ + 1]
    /\ UNCHANGED <<lexing, parsing>>
    /\ UNCHANGED <<src, pos, idx, labels, instructions, out, log, phase>>
    /\ UNCHANGED vmvars

NextGo ==
    \/ LexerClose
    \/ ParserReceive
    \/ ParserReturns
    \/ ParserSend
    \/ ParserDrain
    \/ ParserClose
    \/ AssemblerRangeEnds
    \/ AssemblerSendDiag
    \/ AssemblerSend
    \/ AssemblerClose

\* a goroutine that can take a step is scheduled
SpecGo == InitGo /\ [][NextGo]_vars /\ WF_vars(NextGo)

----------------------------------------------------------------------------
(* Properties of the machine, checked under Spec *)

\* C1: in every state reached from the initial machine by Fetch and Execute
\* calls, right after an Execute call GPR[0] = 0 and CI = 0, whatever the
\* word executed and whatever Execute returned.
C1_ExecuteClearsR0AndCI ==
    op = "Execute" => GPR[0] = 0 /\ CI = 0

\* Fetch then Execute of addi r0 r0 -64, a write to r0 of a non-zero value
C1_ExecutedWriteToR0 ==
    /\ op = "Execute"
    /\ steps = 2
    /\ PC = 1
    /\ ReadM(M, 0) = 8256
    /\ ret = "nil"

\* C2: Execute of a JALR word returns an error if and only if the ra and rb
\* fields of the word are both 0; when either field is not 0 it links and
\* jumps (GPR[ra] = the old PC unless ra = 0, PC = the old GPR[rb] unless
\* rb = ra) and returns no error, even when GPR[ra] and GPR[rb] hold 0.
C2_JALRErrorIffFieldsZero ==
    [][ (op' = "Execute" /\ Decode(CI).opcode = 7)
        => /\ (ret' # "nil") <=> (Decode(CI).ra = 0 /\ Decode(CI).rb = 0)
           /\ (Decode(CI).ra # 0 \/ Decode(CI).rb # 0)
                 => /\ Decode(CI).ra # 0 => GPR'[Decode(CI).ra] = PC
                    /\ PC' = IF Decode(CI).rb = Decode(CI).ra
                             THEN PC ELSE GPR[Decode(CI).rb] ]_vars

\* Fetch then Execute of jalr r1 r2 on the initial machine returned the
\* exception and did not link
C2_JALRNonZeroFieldsRaised ==
    /\ op = "Execute"
    /\ steps = 2
    /\ ReadM(M, 0) = 58624
    /\ PC = 1
    /\ GPR[1] = 0
    /\ ret = "exception"

\* C3: Execute of a JALR word whose ra and rb fields are both 0 returns
\* halted exactly when bits 6..0 are 0x71, returns the exception for every
\* other code that is not 0, and in both cases leaves PC, GPR[1..7] and the
\* memory as they were.
C3_ExceptionRequest ==
    [][ (/\ op' = "Execute"
         /\ Decode(CI).opcode = 7
         /\ Decode(CI).ra = 0
         /\ Decode(CI).rb = 0)
        => /\ (ret' = "halted") <=> (CI % 128 = 113)
           /\ (CI % 128 \notin {0, 113}) => ret' = "exception"
           /\ PC' = PC
           /\ M' = M
           /\ \A r \in 1..7 : GPR'[r] = GPR[r] ]_vars

\* addi r1 r0 5 then jalr r0 r0 1: the exception is returned by the second
\* Execute, with r1 = 5 and PC = 2 as the Fetch left them
C3_ExceptionReturned ==
    /\ op = "Execute"
    /\ steps = 4
    /\ ReadM(M, 0) = 9221
    /\ ReadM(M, 1) = 57345
    /\ PC = 2
    /\ GPR[1] = 5
    /\ ret = "exception"

\* C4: the assembler emits one word for the source line halt, and that
\* word, loaded at address 0 and run from the initial machine, makes the
\* first Execute after the first Fetch return halted.
C4_HaltHalts ==
    /\ \A image \in AssembledImages : DOMAIN image = {0}
    /\ (op = "Execute" /\ steps = 2 /\ PC = 1 /\ M \in AssembledImages)
          => ret = "halted"

C4_HaltProgramRun ==
    /\ op = "Execute"
    /\ steps = 2
    /\ PC = 1
    /\ M \in AssembledImages
    /\ DOMAIN M = {0}
    /\ ret = "halted"

----------------------------------------------------------------------------
(* What the source lines are expected to assemble to, line by line: the    *)
(* reference the assembler's state is compared with                        *)

\* the lines with a lex or parse error
BadLines ==
    { L_add_short, L_unknown, L_halt_extra, L_nop_invalid, L_space_zero }

HasBadLine == \E i \in 1..Len(src) : src[i] \in BadLines

\* the number of the first line with a lex or parse error, 0 if none
FirstBadLine == MinOrZero({i \in 1..Len(src) : src[i] \in BadLines})

\* every line is delivered by the scanner
AllScanned == \A i \in 1..Len(src) : src[i] # L_long

\* the number of words .space asks for, 0 for other lines
RefSpace(line) ==
    IF line = L_space THEN 2
    ELSE IF line = L_space_max THEN 65535
    ELSE IF line = L_space_64 THEN 64
    ELSE 0

\* the number of words a line without error stands for
RefWords(line) ==
    IF line = L_movi THEN 2
    ELSE IF RefSpace(line) > 0 THEN RefSpace(line)
    ELSE IF line = L_comment THEN 0
    ELSE 1

\* the label a line defines, <<>> if none
RefLabel(line) ==
    IF line \in {L_movi, L_label_nop} THEN <<"L">>
    ELSE IF line = L_start_add THEN <<"s","t","a","r","t">>
    ELSE IF line \in {L_space, L_space_max} THEN <<"M">>
    ELSE <<>>

\* the index of the first word of line i: the words of the lines before it
RECURSIVE RefIndex(_, _)
RefIndex(lines, i) ==
    IF i <= 1 THEN 0 ELSE RefIndex(lines, i - 1) + RefWords(lines[i - 1])

\* no later line defines the label of line i again
LastDefinition(lines, i) ==
    \A j \in (i + 1)..Len(lines) : RefLabel(lines[j]) # RefLabel(lines[i])

\* the number of instruction-word records among the records sent
WordRecords(sent) == Len(SelectSeq(sent, LAMBDA r : r.Error = NoErr))

TooManyDiagnostic(r) == r.Error = Errorf(ErrTooManyInstructions, "", <<>>)

----------------------------------------------------------------------------
(* Properties of the assembler, checked under SpecAsm and SpecBig *)

\* C5: if a source line fails to lex or parse, the assembler sends exactly
\* one record, the diagnostic, and no instruction word, however many valid
\* lines come before or after the bad line: it never sends a word, never
\* reaches the second loop, and has sent the one diagnostic when it returns.
C5_ParseErrorAborts ==
    HasBadLine
       => /\ \A i \in 1..Len(Unpack(out)) : Unpack(out)[i].Error # NoErr
          /\ Len(Unpack(out)) <= 1
          /\ phase \in {"pass1", "aborted"}
          /\ phase = "aborted" => Len(Unpack(out)) = 1

\* add r1 r2 between two valid lines: the assembler returned after the
\* one diagnostic
C5_AbortedBetweenValidLines ==
    /\ phase = "aborted"
    /\ src = <<L_add, L_add_short, L_halt>>
    /\ Len(Unpack(out)) = 1
    /\ Unpack(out)[1].Error # NoErr

\* record i is the encoded word of instruction i, or its diagnostic
C6_RecordOf(record, instr, i) ==
    /\ record.Lineno = instr.Lineno
    /\ IF Encode(instr, labels, i - 1).err = NoErr
       THEN /\ record.Error = NoErr
            /\ record.Instruction = Encode(instr, labels, i - 1).v
       ELSE /\ record.Error = Encode(instr, labels, i - 1).err
            /\ record.Instruction = 0

\* C6: when parsing succeeds with N <= 65536 instructions, the assembler
\* sends exactly N records in address order, record i being the encoded
\* word of instruction i or a diagnostic for it; a failed encode does not
\* keep the records of the later instructions from being sent.
C6_OneRecordPerInstruction ==
    (phase = "done" /\ Len(Unpack(instructions)) <= 65536)
       => /\ Len(Unpack(out)) = Len(Unpack(instructions))
          /\ \A i \in 1..Len(Unpack(out)) :
                C6_RecordOf(Unpack(out)[i], Unpack(instructions)[i], i)

\* addi with an undefined label, then add and halt: a diagnostic followed
\* by two words
C6_WordsAfterEncodeError ==
    /\ phase = "done"
    /\ src = <<L_addi_missing, L_add, L_halt>>
    /\ Len(Unpack(out)) = 3
    /\ Unpack(out)[1].Error # NoErr
    /\ Unpack(out)[2].Error = NoErr
    /\ Unpack(out)[3].Instruction = 57457

\* C7: every diagnostic record the assembler sends has its line-number
\* field equal to the 1-based number of the source line that caused it:
\* the first bad line for a lex or parse diagnostic, the line of the
\* instruction for an encode diagnostic.
C7_DiagnosticLines ==
    \A i \in 1..Len(Unpack(out)) :
       Unpack(out)[i].Error # NoErr
          => IF phase = "aborted"
             THEN Unpack(out)[i].Lineno = FirstBadLine
             ELSE /\ Unpack(out)[i].Lineno = Unpack(instructions)[i].Lineno
                  /\ Unpack(out)[i].Lineno \in 1..Len(src)
                  /\ RefIndex(src, Unpack(out)[i].Lineno) < i
                  /\ i <= RefIndex(src, Unpack(out)[i].Lineno + 1)

\* the diagnostic for add r1 r2 on line 1 carries line 0
C7_ParseDiagnosticLineZero ==
    /\ phase = "aborted"
    /\ src = <<L_add_short>>
    /\ Len(Unpack(out)) = 1
    /\ Unpack(out)[1].Error # NoErr
    /\ Unpack(out)[1].Lineno = 0

\* the limit, for n instructions and the records sent
C8_Limit(n, sent) ==
    /\ WordRecords(sent) <= 65536
    /\ (phase = "done" /\ n = 65536)
          => /\ Len(sent) = 65536
             /\ \A i \in 1..Len(sent) : ~TooManyDiagnostic(sent[i])
    /\ (phase = "done" /\ n >= 65537)
          => /\ Len(sent) = 65537
             /\ TooManyDiagnostic(sent[Len(sent)])
             /\ \A i \in 1..65536 : ~TooManyDiagnostic(sent[i])

\* C8: a program of exactly 65536 instructions assembles without a
\* TooManyInstructions diagnostic; one of 65537 or more ends with a
\* TooManyInstructions diagnostic as its last record; and at every moment
\* of every run at most 65536 instruction-word records have been sent.
C8_InstructionLimit == C8_Limit(Len(Unpack(instructions)), Unpack(out))

\* nop and .space 65535: 65536 instructions, 65536 words
C8_ExactlyAtTheLimit ==
    /\ phase = "done"
    /\ src = <<L_nop, L_space_max>>
    /\ Len(Unpack(instructions)) = 65536
    /\ WordRecords(Unpack(out)) = 65536

\* the labels and the instructions of each line, for the instructions instrs
C9_Addresses(instrs) ==
    /\ DOMAIN labels = {RefLabel(src[i]) : i \in 1..Len(src)} \ {<<>>}
    /\ Len(instrs) = RefIndex(src, Len(src) + 1)
    /\ \A i \in 1..Len(src) :
          /\ (RefLabel(src[i]) # <<>> /\ LastDefinition(src, i))
                => labels[RefLabel(src[i])] = RefIndex(src, i)
          /\ \A w \in 1..RefWords(src[i]) :
                instrs[RefIndex(src, i) + w].Lineno = i
          /\ src[i] = L_movi
                => /\ instrs[RefIndex(src, i) + 1].MaybeLabel
                         = <<RefLabel(src[i])>>
                   /\ instrs[RefIndex(src, i) + 2].MaybeLabel = NoLabel

\* C9: after pass 1 the label map holds, for every label, the 0-based index
\* of the first word of the line the label prefixes, counting two words for
\* each earlier movi and n for each earlier .space n; the instructions of
\* each line sit at the indices the count gives, so the instruction after a
\* movi at index k has index k+2; a labelled movi carries its label on the
\* first word and none on the second.
C9_LabelAddresses ==
    phase \in {"pass2", "done"} => C9_Addresses(Unpack(instructions))

\* a labelled movi at index 0, then a labelled .space at index 2
C9_LabelAfterMovi ==
    /\ phase = "pass2"
    /\ src = <<L_movi, L_space, L_beq>>
    /\ labels[<<"L">>] = 0
    /\ labels[<<"M">>] = 2
    /\ Unpack(instructions)[5].Lineno = 3

\* the instructions and records of the .space n of line i, at index k
C10_SpaceAt(instrs, sent, i, k, n) ==
    /\ Len(instrs) >= k + n
    /\ \A w \in 1..n :
          /\ instrs[k + w].kind = "DATA"
          /\ instrs[k + w].Value = 0
          /\ instrs[k + w].Lineno = i
          /\ instrs[k + w].MaybeLabel
                = IF w = 1 THEN <<RefLabel(src[i])>> ELSE NoLabel
    /\ (k + n < Len(instrs)) => instrs[k + n + 1].Lineno # i
    /\ (k > 0) => instrs[k].Lineno # i
    /\ LastDefinition(src, i) => labels[RefLabel(src[i])] = k
    /\ phase = "done"
          => \A w \in 1..n :
                k + w <= 65536 => sent[k + w] = InstructionOrError(0, NoErr, i)

C10_Space(instrs, sent) ==
    /\ phase \in {"pass2", "done"}
          => \A i \in 1..Len(src) :
                RefSpace(src[i]) > 0
                   => C10_SpaceAt(instrs, sent, i, RefIndex(src, i),
                                  RefSpace(src[i]))
    /\ (phase \in {"aborted", "done"}
        /\ \E i \in 1..Len(src) : src[i] = L_space_zero)
          => /\ phase = "aborted"
             /\ Len(sent) = 1
             /\ sent[1].Error = Errorf(ErrOutOfRange, "for data", <<>>)
             /\ sent[1].Instruction = 0

\* C10: .space n with 1 <= n <= 65535, labelled L and starting at index k,
\* gives exactly n words at the indices k..k+n-1, all 0, with labels[L] = k
\* and no label on the other n-1 words (the words are sent as far as the
\* limit of 65536 records allows); .space 0 is rejected with a parse
\* diagnostic.
C10_SpaceWords ==
    AllScanned => C10_Space(Unpack(instructions), Unpack(out))

\* nop, then M: .space 65535 at index 1
C10_SpaceOfMaximalSize ==
    /\ phase = "done"
    /\ src = <<L_nop, L_space_max>>
    /\ labels[<<"M">>] = 1
    /\ Len(Unpack(out)) = 65536
    /\ Unpack(out)[65536] = InstructionOrError(0, NoErr, 2)

----------------------------------------------------------------------------
(* Properties of the assembler and the disassembler, checked under         *)
(* SpecText                                                                *)

\* the assembler has returned
Returned == phase \in {"done", "aborted"}

\* the one word the assembler sent for the disassembled text, if it sent
\* exactly one record and that record is a word
Reassembled(w) ==
    /\ Len(Unpack(out)) = 1
    /\ Unpack(out)[1].Error = NoErr
    /\ Unpack(out)[1].Instruction = w

\* C11: for every word w the assembler sent for a source of TextPrograms,
\* when the assembler has returned on the one-line source Disassemble(w) it
\* has sent exactly one record, the word w.
C11_RoundTrip == op = "Disassemble" /\ Returned => Reassembled(CI)

\* the word 0xE780 of `jalr r1 r7` is disassembled as `jalr r1 r7 0`, for
\* which the assembler sends one diagnostic and no word
C11_JALRNotReassembled ==
    /\ op = "Disassemble"
    /\ CI = 59264
    /\ src = << <<"j","a","l","r"," ","r","1"," ","r","7"," ","0">> >>
    /\ phase = "aborted"
    /\ Len(Unpack(out)) = 1
    /\ Unpack(out)[1].Error.wraps = ErrExpectedEOL

\* the source is the one line made of the mnemonic, a blank before each
\* operand
OneLine(name, ops) == src = << Join(name, ops, [i \in 1..Len(ops) |-> Blank]) >>

\* the assembler has sent the words ws and nothing else
SentWordsAre(ws) ==
    /\ phase = "done"
    /\ Len(Unpack(out)) = Len(ws)
    /\ \A i \in 1..Len(ws) :
          /\ Unpack(out)[i].Error = NoErr
          /\ Unpack(out)[i].Instruction = ws[i]

\* C13: when the assembler has returned on `movi r1 0x1234` it has sent the
\* two words 0x6448 and 0x24B4 of the value 0x1234, and on `lui r1 017` the
\* one word 0x6400 of the value 15: a hexadecimal or octal immediate is
\* accepted by the lexer, the parser and the encoder and resolved to its
\* value.
C13_HexAndOctalLiterals ==
    /\ OneLine(N_movi, << <<"r","1">>, I_hex >>) /\ op = "off" /\ Returned
       => SentWordsAre(<<25672, 9396>>)
    /\ OneLine(N_lui, << <<"r","1">>, I_octal >>) /\ op = "off" /\ Returned
       => SentWordsAre(<<25600>>)

\* `movi r1 0x1234`: the lexer sends `0` and `x1234`, the parser finds a
\* name where the line should end, the assembler sends one diagnostic
C13_HexLiteralRejected ==
    /\ OneLine(N_movi, << <<"r","1">>, I_hex >>)
    /\ op = "off"
    /\ phase = "aborted"
    /\ Len(Unpack(out)) = 1
    /\ Unpack(out)[1].Error.wraps = ErrExpectedEOL

\* the opcode of the word a mnemonic stands for
OpcodeOf(name) ==
    CASE name = N_add  -> OpcodeADD
      [] name = N_addi -> OpcodeADDI
      [] name = N_lli  -> OpcodeADDI
      [] name = N_nand -> OpcodeNAND
      [] name = N_lui  -> OpcodeLUI
      [] name = N_sw   -> OpcodeSW
      [] name = N_lw   -> OpcodeLW
      [] name = N_beq  -> OpcodeBEQ
      [] name = N_jalr -> OpcodeJALR

\* the number of the register named rN
RegNumber(text) == DigitValue(text[2])

\* the warning ResolveImmediate prints
Warning(bits, name, lineno) == [bits |-> bits, name |-> name, lineno |-> lineno]

\* C14: when the assembler has returned on the one line `<m> ra rb v`, m one
\* of addi, sw, lw, beq, ra and rb of RegTexts and v of ImmValues, it has
\* sent one word and no diagnostic; the word's bits 6..0 are v mod 128 and
\* its bits 15..7 the opcode, ra and rb; the 7-bit warning for line 1 is
\* printed if and only if v is outside -64..63.  The same holds for a label
\* whose index is 64 (warning) or 0 (no warning).
C14_OutOfRangeImmediate ==
    /\ \A name \in {N_addi, N_sw, N_lw, N_beq} :
       \A ra \in RegTexts, rb \in RegTexts, v \in ImmValues :
          OneLine(name, <<ra, rb, FormatInt(v)>>) /\ op = "off" /\ Returned
          => /\ SentWordsAre(<< OpcodeOf(name) * 8192 + RegNumber(ra) * 1024
                                + RegNumber(rb) * 128 + (v % 128) >>)
             /\ log = IF v \in (0 - 64)..63 THEN <<>>
                      ELSE << Warning(7, FormatInt(v), 1) >>
    /\ src = <<L_space_64, L_space, L_addi_M>> /\ Returned
       => /\ phase = "done"
          /\ Len(Unpack(out)) = 67
          /\ Unpack(out)[67] = InstructionOrError(9280, NoErr, 3)
          /\ log = << Warning(7, <<"M">>, 3) >>
    /\ src = <<L_space, L_addi_M>> /\ Returned
       => /\ phase = "done"
          /\ Len(Unpack(out)) = 3
          /\ Unpack(out)[3] = InstructionOrError(9216, NoErr, 2)
          /\ log = <<>>

\* `addi r1 r0 200` has been assembled to 0x2448 with a warning
C14_Addi200 ==
    /\ OneLine(N_addi, << <<"r","1">>, <<"r","0">>, <<"2","0","0">> >>)
    /\ op = "off"
    /\ SentWordsAre(<<9288>>)
    /\ log = << Warning(7, <<"2","0","0">>, 1) >>

\* C15: for every mnemonic that takes operands and every choice of the text
\* before each operand among a blank, a comma, and a comma and a blank
\* (the first operand's included), when the assembler has returned on the
\* line it has sent the records it sends for the line with blanks alone,
\* all of them words.
C15_CommaPlacement ==
    \A m \in Mnemonics :
    \A seps \in [1..Len(m.shape) -> Separators] :
        /\ src = << Join(m.name, BaseOperands(m), seps) >>
        /\ op = "off"
        /\ Returned
        => /\ phase = "done"
           /\ \A i \in 1..Len(Unpack(out)) : Unpack(out)[i].Error = NoErr
           /\ Unpack(out) =
                 AssemblerAsync(<< Join(m.name, BaseOperands(m), Blanks(m)) >>)

\* `add, r1, r2, r3` has been assembled to 0x0503, the word of `add r1 r2 r3`
C15_CommaBeforeEveryOperand ==
    /\ src = << <<"a","d","d",","," ","r","1",","," ","r","2",","," ","r","3">> >>
    /\ op = "off"
    /\ SentWordsAre(<<1283>>)
    /\ AssemblerAsync(<<L_add>>) = <<InstructionOrError(1283, NoErr, 1)>>

\* every record sent is a word whose bits from the given one up, word
\* divided by 2^bit, are the given ones
WordsAbove(bit, upper) ==
    \A i \in 1..Len(Unpack(out)) :
        Unpack(out)[i].Error = NoErr
        => Unpack(out)[i].Instruction \div (2 ^ bit) = upper

\* C16: when the assembler has returned on a one-line source with register
\* names of RegTexts and an immediate of ImmTexts, every word it sent has the
\* opcode in bits 15..13 and RA in bits 12..10 and nothing outside its
\* fields: `add`/`nand ra rb rc` is the word of the four fields, bits 6..3
\* being 0; `jalr ra rb` the word of the three fields; for addi, sw, lw and
\* beq bits 15..7 are the opcode, ra and rb whatever the immediate; for lui
\* bits 15..10 are the opcode and ra whatever the immediate; for lli bits
\* 15..6 are those of `addi ra ra`; movi sends the lui word and the lli word;
\* the word of `halt` has the bits 15..7 of `jalr r0 r0`.
C16_FieldsOnly ==
    op = "off" /\ Returned =>
    /\ OneLine(N_halt, <<>>) => Len(Unpack(out)) = 1 /\ WordsAbove(7, OpcodeOf(N_jalr) * 64)
    /\ \A ra \in RegTexts :
           /\ \A rb \in RegTexts :
                 /\ \A name \in {N_add, N_nand}, rc \in RegTexts :
                       OneLine(name, <<ra, rb, rc>>)
                       => SentWordsAre(<< OpcodeOf(name) * 8192 + RegNumber(ra) * 1024
                                          + RegNumber(rb) * 128 + RegNumber(rc) >>)
                 /\ OneLine(N_jalr, <<ra, rb>>)
                    => SentWordsAre(<< OpcodeOf(N_jalr) * 8192 + RegNumber(ra) * 1024
                                       + RegNumber(rb) * 128 >>)
                 /\ \A name \in {N_addi, N_sw, N_lw, N_beq}, t \in ImmTexts :
                       OneLine(name, <<ra, rb, t>>)
                       => WordsAbove(7, OpcodeOf(name) * 64 + RegNumber(ra) * 8
                                        + RegNumber(rb))
           /\ \A t \in ImmTexts :
                 /\ OneLine(N_lui, <<ra, t>>)
                    => WordsAbove(10, OpcodeOf(N_lui) * 8 + RegNumber(ra))
                 /\ OneLine(N_lli, <<ra, t>>)
                    => WordsAbove(6, OpcodeOf(N_lli) * 128 + RegNumber(ra) * 16
                                     + RegNumber(ra) * 2)
                 /\ OneLine(N_movi, <<ra, t>>) /\ phase = "done"
                    => /\ Len(Unpack(out)) = 2
                       /\ Unpack(out)[1].Error = NoErr
                          => Unpack(out)[1].Instruction \div 1024
                             = OpcodeOf(N_lui) * 8 + RegNumber(ra)
                       /\ Unpack(out)[2].Error = NoErr
                          => Unpack(out)[2].Instruction \div 64
                             = OpcodeOf(N_lli) * 128 + RegNumber(ra) * 16
                               + RegNumber(ra) * 2

\* `lui r1 -1` has been assembled to 0x67FF: the field is all ones, bits
\* 15..10 are those of `lui r1 0`
C16_LuiMinusOne ==
    /\ OneLine(N_lui, << <<"r","1">>, <<"-","1">> >>)
    /\ op = "off"
    /\ SentWordsAre(<<26623>>)

\* the assembler has sent one diagnostic that wraps the given error, and
\* nothing else
SentDiagnostic(err) ==
    /\ phase = "aborted"
    /\ Len(Unpack(out)) = 1
    /\ Unpack(out)[1].Error.wraps = err

\* C17: when the assembler has returned on a line whose register operands
\* are r1, r2, r3 except one, which is `3`, `r8`, `rr1` or `r`, it has sent
\* one diagnostic, that of an invalid register name, and no word.
C17_OnlyRegisterNames ==
    \A m \in Mnemonics :
        src \in { <<line>> : line \in OtherRegLines(m) } /\ op = "off" /\ Returned
        => SentDiagnostic(ErrInvalidRegisterName)

\* `add 3 r2 r3` has been assembled to 0x0D03, the word of `add r3 r2 r3`
C17_BareDigitAccepted ==
    /\ OneLine(N_add, << <<"3">>, <<"r","2">>, <<"r","3">> >>)
    /\ op = "off"
    /\ SentWordsAre(<<3331>>)

\* C18: a line that holds a label alone is accepted and the label is the
\* index of the next instruction: when the assembler has returned on `L:` /
\* `add r1 r2 r3` it has sent the word of the add and L is 0; on
\* `add r1 r2 r3` / `L:` / `beq r0 r0 L` it has sent the two words, the
\* second with the immediate 1, and L is 1.
C18_LabelOnlyLine ==
    /\ src = <<L_label_only, L_add>> /\ Returned
       => SentWordsAre(<<1283>>) /\ labels = [l \in {<<"L">>} |-> 0]
    /\ src = <<L_add, L_label_only, L_beq_L>> /\ Returned
       => SentWordsAre(<<1283, 49153>>) /\ labels = [l \in {<<"L">>} |-> 1]

\* `L:` / `add r1 r2 r3`: the parser finds the end of the line where the
\* name of the instruction should be; the assembler sends one diagnostic
\* and binds no label
C18_LabelOnlyLineRejected ==
    /\ src = <<L_label_only, L_add>>
    /\ SentDiagnostic(ErrExpectedNameOrNumber)
    /\ Unpack(out)[1].Error.msg = "while parsing instruction name"
    /\ Unpack(out)[1].Error.line = <<1>>
    /\ labels = EmptyLabels

\* the label a line uses as its immediate, <<>> if none
RefUse(line) ==
    IF line \in {L_beq_L, L_lui_L} THEN <<"L">>
    ELSE IF line = L_addi_M THEN <<"M">>
    ELSE <<>>

\* the word of a line that uses a label, for the label's index
RefUseWord(line, index) ==
    CASE line = L_beq_L  -> 49152 + (index % 128)
      [] line = L_lui_L  -> 25600 + (index \div 64)
      [] line = L_addi_M -> 9216 + (index % 128)

\* the lines of the source that define the label
Definitions(label) == { j \in 1..Len(src) : RefLabel(src[j]) = label }

\* the record sent for the first instruction of line i
RecordOfLine(i) == Unpack(out)[RefIndex(src, i) + 1]

\* the second loop has run and every record it sent is an encode diagnostic,
\* or none is
AllEncodeDiagnostics ==
    \A i \in 1..Len(Unpack(out)) : Unpack(out)[i].Error.wraps = ErrCannotEncode
NoEncodeDiagnostic ==
    \A i \in 1..Len(Unpack(out)) : Unpack(out)[i].Error = NoErr

\* the immediates of ImmTexts that are integer literals and reach the second
\* loop
Literals == ImmTexts \ {I_missing, I_hex, I_octal}

\* the second loop has run on the one line `<name> <regs> t` with an
\* immediate of ImmTexts: its records are encode diagnostics if the text is
\* neither a literal nor a defined label, words if it is a literal
LiteralOrDiagnostic(name, regs, t) ==
    OneLine(name, Append(regs, t)) /\ phase = "done"
    => /\ t \notin Literals => AllEncodeDiagnostics
       /\ t \in Literals => NoEncodeDiagnostic

\* C19: when the second loop has run, an instruction's record is an encode
\* diagnostic if and only if its immediate text is neither an integer
\* literal nor a label some line of the source defines.  For the one-line
\* sources with an immediate of ImmTexts no label is defined; for the
\* programs of LabelLines the record of a line that uses a label is a
\* diagnostic if no line defines the label, and otherwise the word with the
\* index of the label's last definition, whether that line comes before the
\* use or after it; the records of the other lines are words.
C19_EncodeDiagnostics ==
    /\ op = "off" =>
       \A ra \in RegTexts, t \in ImmTexts :
          /\ \A name \in {N_lui, N_lli, N_movi} :
                LiteralOrDiagnostic(name, <<ra>>, t)
          /\ \A name \in {N_addi, N_sw, N_lw, N_beq}, rb \in RegTexts :
                LiteralOrDiagnostic(name, <<ra, rb>>, t)
    /\ src \in Programs(LabelLines, MaxTextLines) /\ phase = "done" =>
       \A i \in 1..Len(src) :
          /\ RefUse(src[i]) = <<>> =>
                \A w \in 1..RefWords(src[i]) :
                   Unpack(out)[RefIndex(src, i) + w].Error = NoErr
          /\ RefUse(src[i]) # <<>> /\ Definitions(RefUse(src[i])) = {} =>
                RecordOfLine(i).Error.wraps = ErrCannotEncode
          /\ \A j \in Definitions(RefUse(src[i])) :
                RefUse(src[i]) # <<>> /\ LastDefinition(src, j) =>
                   RecordOfLine(i)
                   = InstructionOrError(RefUseWord(src[i], RefIndex(src, j)),
                                        NoErr, i)

\* `lui r1 9223372036854775808`: an integer literal, and the second loop
\* has sent the encode diagnostic of a missing label
C19_LiteralTakenForLabel ==
    /\ OneLine(N_lui, << <<"r","1">>, MinInt64Text >>)
    /\ op = "off"
    /\ phase = "done"
    /\ Len(Unpack(out)) = 1
    /\ Unpack(out)[1].Error = Errorf(ErrCannotEncode, "because label is missing", <<>>)

\* C27 as stated: when the assembler has returned on the one-line source
\* `halt` it has sent exactly one record, the word 0x7001.
C27_HaltIs7001 ==
    OneLine(N_halt, <<>>) /\ op = "off" /\ Returned => SentWordsAre(<<28673>>)

\* C27: when the assembler has returned on the one-line source `halt` it
\* has sent exactly one record, the word 0xE071: opcode 7, ra = rb = 0 and
\* the immediate ExceptionTypeEXCEPTION | ExceptionValueHALT = 0x71.
C27_HaltIsE071 ==
    OneLine(N_halt, <<>>) /\ op = "off" /\ Returned
    => SentWordsAre(<< OpcodeJALR * 8192 + 113 >>)

\* `halt` has been assembled
C27_HaltAssembled ==
    /\ OneLine(N_halt, <<>>)
    /\ op = "off"
    /\ phase = "done"
    /\ Unpack(out) = << InstructionOrError(57457, NoErr, 1) >>

\* C28: when the second loop has run on the one line `lui ra v`, `lli ra v`
\* or `movi ra v`, v of ImmValues, no 16-bit range warning has been printed
\* if v is in -32768..65535, and the warning has been printed if v is
\* outside that range.
C28_SixteenBitRange ==
    \A name \in {N_lui, N_lli, N_movi}, ra \in RegTexts, v \in ImmValues :
        OneLine(name, <<ra, FormatInt(v)>>) /\ op = "off" /\ phase = "done"
        => (log = <<>>) <=> (v \in (0 - 32768)..65535)

\* `lui r1 65535` has been assembled to 0x67FF and the warning for the
\* 16-bit range printed
C28_WarningFor65535 ==
    /\ OneLine(N_lui, << <<"r","1">>, <<"6","5","5","3","5">> >>)
    /\ op = "off"
    /\ SentWordsAre(<<26623>>)
    /\ log = << Warning(16, <<"6","5","5","3","5">>, 1) >>

\* the tokens of the part of an invalid line before the character no rule
\* matches
BeforeInvalid(line, lineno) ==
    IF line = L_at THEN <<>>
    ELSE IF line = L_nop_invalid
    THEN <<LexerToken(lineno, LexerNameOrNumber, N_nop)>>
    ELSE IF line = L_label_at
    THEN <<LexerToken(lineno, LexerLabel, <<"L", ":">>)>>
    ELSE <<LexerToken(lineno, LexerNameOrNumber, N_add),
           LexerToken(lineno, LexerNameOrNumber, <<"r", "1">>),
           LexerToken(lineno, LexerNameOrNumber, <<"r", "2">>),
           LexerToken(lineno, LexerNameOrNumber, <<"r", "3">>)>>

\* C30: a line on which no rule of the lexer matches the remainder (`@`,
\* `nop @`, `L: @`, `add r1 r2 r3 @ r4`) yields the tokens of what comes
\* before the remainder, then exactly one Invalid token, then the line's
\* EOL, and nothing for the rest of the line; for a source with such a line
\* the assembler never sends an instruction word, and when it has returned
\* it has sent one diagnostic.  A `@` inside a comment is no such line.
C30_InvalidToken ==
    src \in InvalidPrograms =>
    /\ \A i \in 1..Len(src) :
          /\ src[i] \in InvalidLines
             => LexLine(src[i], i)
                = BeforeInvalid(src[i], i)
                  \o <<LexerToken(i, LexerInvalid, <<>>),
                       LexerToken(i, LexerEOL, <<>>)>>
          /\ src[i] = L_nop_comment_at
             => LexLine(src[i], i)
                = <<LexerToken(i, LexerNameOrNumber, N_nop),
                    LexerToken(i, LexerEOL, <<>>)>>
    /\ (\E i \in 1..Len(src) : src[i] \in InvalidLines)
       => /\ WordRecords(Unpack(out)) = 0
          /\ phase # "done"
          /\ Returned => /\ Len(Unpack(out)) = 1
                         /\ Unpack(out)[1].Error # NoErr
    /\ (\A i \in 1..Len(src) : src[i] \notin InvalidLines) /\ Returned
       => SentWordsAre([i \in 1..Len(src) |->
                           IF src[i] = L_add THEN 1283 ELSE 0])

\* `add r1 r2 r3` then `add r1 r2 r3 @ r4`: the assembler returned after
\* one diagnostic, without a word for either line
C30_InvalidAfterValidLine ==
    /\ src = <<L_add, L_add_at>>
    /\ phase = "aborted"
    /\ Len(Unpack(out)) = 1
    /\ Unpack(out)[1].Error # NoErr
    /\ Len(LexLine(L_add_at, 2)) = 6

\* C31: when the assembler has returned on the one line `.fill v`, v a
\* decimal literal of ImmValues, it has sent the one word v mod 2^16 if v is
\* in -32768..32767, and else, for 32768..65535 as for the values further
\* out, the one diagnostic of an out of range value for data and no word;
\* the same diagnostic is all it has sent for `.fill X` and for `.fill L`,
\* whether the label is defined nowhere, before or after the line.
C31_FillSigned16 ==
    /\ \A v \in ImmValues :
          OneLine(N_fill, <<FormatInt(v)>>) /\ op = "off" /\ Returned
          => IF v \in (0 - 32768)..32767
             THEN SentWordsAre(<< (v + 65536) % 65536 >>) /\ log = <<>>
             ELSE SentDiagnostic(ErrOutOfRange)
    /\ (OneLine(N_fill, <<I_missing>>) \/ src \in FillLabelPrograms)
       /\ op = "off" /\ Returned
       => SentDiagnostic(ErrOutOfRange)

\* `.fill 65535` drew the diagnostic, no word
C31_Fill65535Rejected ==
    /\ OneLine(N_fill, << <<"6","5","5","3","5">> >>)
    /\ op = "off"
    /\ SentDiagnostic(ErrOutOfRange)
    /\ Unpack(out)[1].Instruction = 0

\* the programs in which two lines define L and every line parses and
\* names no label but L
TwiceDefined ==
    /\ src \in DuplicatePrograms
              \cup Programs(LabelLines \ {L_label_only, L_addi_M}, MaxTextLines)
    /\ Cardinality(Definitions(<<"L">>)) >= 2

\* the index bound by the last line that defines L
LastIndexOfL ==
    RefIndex(src, GreatestOf(Len(src), Definitions(<<"L">>)))

\* C32: when the assembler has returned on a program in which two lines
\* define L, it has run the second loop to its end, no record it sent is a
\* diagnostic, and the record of every line that uses L, before, between or
\* after the definitions, is the word with the index of the last line that
\* defines L.
C32_LastDefinitionWins ==
    TwiceDefined /\ Returned
    => /\ phase = "done"
       /\ NoEncodeDiagnostic
       /\ labels[<<"L">>] = LastIndexOfL
       /\ \A i \in 1..Len(src) :
             RefUse(src[i]) = <<"L">>
             => RecordOfLine(i)
                = InstructionOrError(RefUseWord(src[i], LastIndexOfL), NoErr, i)

\* `beq r0 r0 L` before, between and after two `L: nop`: the three branches
\* carry the index 3 of the second definition
C32_BranchesAroundTwoDefinitions ==
    /\ src = <<L_beq_L, L_label_nop, L_beq_L, L_label_nop, L_beq_L>>
    /\ SentWordsAre(<<49155, 0, 49155, 0, 49155>>)
    /\ log = <<>>

----------------------------------------------------------------------------
(* Properties of the assembler's output run on the machine, checked under  *)
(* SpecRun                                                                 *)

\* C12: for every register ra in 1..7 and every value v of MoviValues, when
\* the machine loaded with the words of a program that ends `movi ra v`,
\* `halt` has run Fetch and Execute in turn up to the second word of the
\* movi, GPR[ra] is v mod 2^16; the lines before the movi leave 0, 21 or
\* 0xFFFF in a register, ra or another.
C12_MoviLoadsValue ==
    \A ra \in MoviRegisters, v \in MoviValues :
        /\ Len(src) >= 2
        /\ src[Len(src) - 1] = MoviLine(ra, v)
        /\ op = "Execute"
        /\ steps = 2 * Len(src)
        => /\ DOMAIN M = 0..Len(src)
           /\ PC = Len(src)
           /\ ret = "nil"
           /\ GPR[ra] = U16(v)

\* `nand r1 r0 r0`, `movi r1 4660`, `halt`: r1 held 0xFFFF and holds 0x1234
C12_MoviOverAllOnes ==
    /\ src = MoviProgram(<<NandLine(1)>>, 1, 4660)
    /\ M = Load(<<17408, 25672, 9396, 57457>>)
    /\ op = "Execute"
    /\ steps = 6
    /\ GPR[1] = 4660

\* C20: the program `foo: .fill 7` / `main: lw r1 r0 foo` / `halt`
\* assembles to three words, the first two 0x0007 and 0xA400, and the
\* machine loaded with them, run from PC = 0 by Fetch and Execute in turn,
\* returns the halted error from the third Execute with GPR[1] = 7.
C20_FillProgram ==
    src = FillProgram =>
        /\ phase = "done" =>
              /\ Len(Unpack(out)) = 3
              /\ \A i \in 1..3 : Unpack(out)[i].Error = NoErr
              /\ Unpack(out)[1].Instruction = 7
              /\ Unpack(out)[2].Instruction = 41984
        /\ op = "new" => PC = 0 /\ DOMAIN M = 0..2
        /\ op = "Execute" /\ steps < 6 => ret = "nil"
        /\ op = "Execute" /\ steps = 6 => ret = "halted" /\ GPR[1] = 7

\* the third Execute has returned the halted error
C20_FillProgramHalted ==
    /\ src = FillProgram
    /\ M = Load(<<7, 41984, 57457>>)
    /\ op = "Execute"
    /\ steps = 6
    /\ ret = "halted"
    /\ GPR[1] = 7

\* the lines of the source that define the label start, and the last of them
StartLines == { j \in 1..Len(src) : src[j] = L_start_add }
LastStart == GreatestOf(Len(src), StartLines)

\* no line before line i branches or halts, so that the machine loaded with
\* the program's words executes the word of line i in its i-th iteration
StraightBefore(i) ==
    \A j \in 1..(i - 1) : src[j] \in {L_start_add, L_addi_inc}

\* C21: the BEQ immediate is the operand as written, never made relative to
\* the instruction's address.  For the programs of BeqPrograms, whose lines
\* stand for one word each: the record of a `beq r0 r0 start` line is the
\* word 0xC000 + the index of the (last) line labelled start, wherever the
\* BEQ sits, before or after that line, and the record of `beq r0 r0 -3` the
\* word 0xC07D; when the machine has executed the BEQ, PC is the address
\* after the BEQ plus that index, so for `start` at index 0 it is the
\* address after the BEQ.
C21_BeqImmediateAbsolute ==
    src \in BeqPrograms /\ phase = "done" =>
    \A i \in 1..Len(src) :
        /\ src[i] = L_beq_back
           => Unpack(out)[i] = InstructionOrError(49152 + 125, NoErr, i)
        /\ src[i] = L_beq_start /\ StartLines # {}
           => /\ Unpack(out)[i]
                 = InstructionOrError(49152 + (LastStart - 1), NoErr, i)
              /\ StraightBefore(i) /\ op = "Execute" /\ steps = 2 * i
                 => PC = i + (LastStart - 1) /\ ret = "nil"

\* `start: add r1 r0 r0` / `addi r1 r1 1` / `beq r0 r0 start`: the BEQ at
\* index 2 is the word 0xC000 and its Execute has left PC = 3
C21_BranchToStartFallsThrough ==
    /\ src = <<L_start_add, L_addi_inc, L_beq_start>>
    /\ M = Load(<<1024, 9345, 49152>>)
    /\ op = "Execute"
    /\ steps = 6
    /\ PC = 3
    /\ GPR[1] = 1

----------------------------------------------------------------------------
(* Properties of the lexer's token stream, under SpecBig *)

\* the positions of the EOL tokens in a token stream
EOLs(tokens) == { i \in 1..Len(tokens) : tokens[i].Type = LexerEOL }

\* C29: for an input of n lines the lexer sends exactly n EOL tokens, and
\* every token carries the number of its line, counted from 1: the line
\* number of a token is one more than the number of EOL tokens sent before
\* it, and the last token sent is an EOL.
C29_OneEOLPerLine ==
    LET tokens == LexAsync(src)
    IN  /\ Cardinality(EOLs(tokens)) = Len(src)
        /\ \A i \in 1..Len(tokens) :
               tokens[i].Lineno
                  = 1 + Cardinality({ j \in EOLs(tokens) : j < i })
        /\ tokens # <<>> => Len(tokens) \in EOLs(tokens)

\* the same for the inputs whose lines the scanner delivers
C29_OneEOLPerScannedLine == AllScanned => C29_OneEOLPerLine

\* a line of 65536 bytes before `nop`: the lexer has sent no EOL at all, only
\* the token with the scanner's error, on line 0
C29_LongLineEndsTheStream ==
    /\ src = <<L_long, L_nop>>
    /\ phase = "done"
    /\ LexAsync(src) = <<ErrToken(0)>>
    /\ EOLs(LexAsync(src)) = {}

----------------------------------------------------------------------------
(* Further properties of the machine, under Spec *)

\* the 7-bit immediate of a word as a signed number
Signed7(word) == IF word % 128 >= 64 THEN (word % 128) - 128 ELSE word % 128

\* the ra and rb fields of a word
FieldRA(word) == (word \div 1024) % 8
FieldRB(word) == (word \div 128) % 8

\* C22: Execute of a BEQ word sets PC to (PC + the signed 7-bit immediate)
\* mod 2^16 when GPR[ra] = GPR[rb], PC being the value the Fetch left, and
\* leaves PC as it is otherwise; the registers and the memory are unchanged
\* in both cases.
C22_BEQ ==
    [][ (op' = "Execute" /\ CI \div 8192 = OpcodeBEQ)
        => /\ PC' = IF GPR[FieldRA(CI)] = GPR[FieldRB(CI)]
                    THEN (PC + Signed7(CI)) % 65536
                    ELSE PC
           /\ GPR' = GPR
           /\ M' = M
           /\ ret' = "nil" ]_vars

\* Fetch then Execute of beq r0 r0 -2 at address 0: PC is 1 - 2 mod 2^16
C22_BranchTakenBackwards ==
    /\ op = "Execute"
    /\ steps = 2
    /\ ReadM(M, 0) = 49278
    /\ PC = 65535

\* C25: a Fetch call sets CI to the word at the address PC held before the
\* call and PC to (PC + 1) mod 2^16, so that a Fetch at PC = 65535 leaves
\* PC = 0; the registers and the memory are unchanged.
C25_Fetch ==
    [][ op' = "Fetch"
        => /\ CI' = (IF PC \in DOMAIN M THEN M[PC] ELSE 0)
           /\ PC' = (PC + 1) % 65536
           /\ PC = 65535 => PC' = 0
           /\ GPR' = GPR
           /\ M' = M ]_vars

\* beq r0 r0 -2 at address 0 took PC to 65535 and the next Fetch to 0
C25_FetchWrapped ==
    /\ op = "Fetch"
    /\ steps = 3
    /\ ReadM(M, 0) = 49278
    /\ PC = 0
    /\ CI = ReadM(M, 65535)

\* C26: an Execute call made right after an Execute call, with no Fetch
\* between them, returns no error and leaves PC, the registers and the
\* memory as they were, whatever the first call returned.
C26_ExecuteTwice ==
    [][ (op = "Execute" /\ op' = "Execute")
        => /\ ret' = "nil"
           /\ PC' = PC
           /\ GPR' = GPR
           /\ M' = M ]_vars

\* Fetch, Execute and Execute again on the halt word: the first Execute
\* returned halted (C4), the second no error
C26_ExecuteAfterHalted ==
    /\ op = "Execute"
    /\ steps = 3
    /\ M = Load(<<57457>>)
    /\ PC = 1
    /\ ret = "nil"

\* the rc field of a word
FieldRC(word) == word % 8

\* Execute is called on a JALR word that is no exception request
JALRJumps ==
    /\ op' = "Execute"
    /\ CI \div 8192 = OpcodeJALR
    /\ ~(GPR[FieldRA(CI)] = 0 /\ GPR[FieldRB(CI)] = 0)

\* C33: when Execute of a JALR word does not raise, PC after the call is
\* the value GPR[rb] held before the call and, for ra # 0, GPR[ra] is the
\* value PC held before the call; for every ra and rb, ra = rb included.
C33_JALRLinksAndJumps ==
    [][ JALRJumps
        => /\ PC' = GPR[FieldRB(CI)]
           /\ FieldRA(CI) # 0 => GPR'[FieldRA(CI)] = PC
           /\ ret' = "nil" ]_vars

\* the same for the words with ra # rb
C33_JALRDistinctRegisters ==
    [][ JALRJumps /\ FieldRA(CI) # FieldRB(CI)
        => /\ PC' = GPR[FieldRB(CI)]
           /\ FieldRA(CI) # 0 => GPR'[FieldRA(CI)] = PC
           /\ ret' = "nil" ]_vars

\* for the words with ra = rb the link is what the jump reads
C33_JALRSameRegister ==
    [][ JALRJumps /\ FieldRA(CI) = FieldRB(CI)
        => PC' = PC /\ GPR'[FieldRA(CI)] = PC /\ ret' = "nil" ]_vars

\* addi r1 r0 5 then jalr r1 r1: r1 held 5, and the Execute of the jalr has
\* left PC = 2, the address after the jalr, and r1 = 2
C33_JumpThroughLinkRegister ==
    /\ M = Load(<<9221, 58496>>)
    /\ op = "Execute"
    /\ steps = 4
    /\ ret = "nil"
    /\ PC = 2
    /\ GPR[1] = 2

\* the address of a SW or LW word: GPR[rb] plus the signed immediate,
\* mod 2^16
EffectiveAddress == (GPR[FieldRB(CI)] + Signed7(CI) + 65536) % 65536

\* the cell a is read as in Go: a cell never loaded or stored holds 0
Cell(m, a) == IF a \in DOMAIN m THEN m[a] ELSE 0

\* C34: Execute of a SW word writes GPR[ra] to the one cell at
\* (GPR[rb] + the signed immediate) mod 2^16 and changes no other cell, no
\* register and not PC; Execute of a LW word reads GPR[ra] from the cell at
\* the same address, so that both wrap around 2^16 alike.
C34_StoreAndLoad ==
    [][ /\ (op' = "Execute" /\ CI \div 8192 = OpcodeSW)
           => /\ \A a \in DOMAIN M \cup DOMAIN M' \cup {EffectiveAddress} :
                     Cell(M', a) = IF a = EffectiveAddress
                                   THEN GPR[FieldRA(CI)]
                                   ELSE Cell(M, a)
              /\ GPR' = GPR
              /\ PC' = PC
              /\ ret' = "nil"
        /\ (op' = "Execute" /\ CI \div 8192 = OpcodeLW /\ FieldRA(CI) # 0)
           => /\ GPR'[FieldRA(CI)] = Cell(M, EffectiveAddress)
              /\ M' = M
              /\ ret' = "nil" ]_vars

\* addi r1 r0 5 then sw r1 r1 -1: the address 5 + 0xFFFF wrapped to 4, the
\* cell 4 holds 5 and the two words of the image are as they were
C34_StoredBelowRegister ==
    /\ op = "Execute"
    /\ steps = 4
    /\ Cell(M, 0) = 9221
    /\ Cell(M, 1) = 34047
    /\ Cell(M, 4) = 5
    /\ DOMAIN M = {0, 1, 4}
    /\ GPR[1] = 5
    /\ PC = 2

\* C35: for ra # 0, Execute of an ADD word sets GPR[ra] to
\* (GPR[rb] + GPR[rc]) mod 2^16 and Execute of an ADDI word to
\* (GPR[rb] + the signed immediate) mod 2^16, an immediate field of
\* 0x40..0x7F standing for -64..-1; GPR[rb] and GPR[rc] are the values
\* before the call, also when ra is rb or rc.
C35_AddAndAddi ==
    [][ /\ (op' = "Execute" /\ CI \div 8192 = OpcodeADD /\ FieldRA(CI) # 0)
           => GPR'[FieldRA(CI)]
              = (GPR[FieldRB(CI)] + GPR[FieldRC(CI)]) % 65536
        /\ (op' = "Execute" /\ CI \div 8192 = OpcodeADDI /\ FieldRA(CI) # 0)
           => /\ GPR'[FieldRA(CI)]
                 = (GPR[FieldRB(CI)] + Signed7(CI) + 65536) % 65536
              /\ CI % 128 \in 64..127
                 => /\ Signed7(CI) \in (0 - 64)..(0 - 1)
                    /\ GPR'[FieldRA(CI)]
                       = (GPR[FieldRB(CI)] + 65536 - (128 - (CI % 128))) % 65536
      ]_vars

\* addi r1 r1 -1 then add r1 r1 r1: r1 went from 0 to 0xFFFF and then to
\* 0xFFFF + 0xFFFF mod 2^16
C35_AddedToItself ==
    /\ M = Load(<<9471, 1153>>)
    /\ op = "Execute"
    /\ steps = 4
    /\ GPR[1] = 65534

\* C36: Execute of an ADD, ADDI, NAND, LUI or LW word changes nothing but
\* GPR[ra] and CI: PC, the memory and the other registers are unchanged,
\* and for ra = 0 all the registers are.
C36_RegisterWritesOnly ==
    [][ (op' = "Execute"
         /\ CI \div 8192 \in {OpcodeADD, OpcodeADDI, OpcodeNAND, OpcodeLUI,
                              OpcodeLW})
        => /\ PC' = PC
           /\ M' = M
           /\ \A r \in 0..7 : r # FieldRA(CI) => GPR'[r] = GPR[r]
           /\ FieldRA(CI) = 0 => GPR' = GPR
           /\ CI' = 0
           /\ ret' = "nil" ]_vars

\* addi r1 r0 5 then lw r2 r1 -1: r2 was loaded, r1 and PC are what the
\* addi and the Fetch left
C36_LoadedSecondRegister ==
    /\ M = Load(<<9221, 43263>>)
    /\ op = "Execute"
    /\ steps = 4
    /\ GPR = [r \in 0..7 |-> IF r = 1 THEN 5 ELSE 0]
    /\ PC = 2
    /\ CI = 0

----------------------------------------------------------------------------
(* Properties of the run loop, under SpecLoop *)

\* the program `start: add r1 r0 r0` / `addi r1 r1 1` / `beq r0 r0 -3`
TheLoop == <<L_start_add, L_addi_inc, L_beq_back>>

\* the machine has been loaded with the words of a program of LoopFamily
LoopLoaded == src \in LoopFamily /\ op # "off"

\* C23: running the assembled program `start: add r1 r0 r0` /
\* `addi r1 r1 1` / `beq r0 r0 -3` from PC = 0 with the driver's loop,
\* Execute never returns halted or exception, PC never leaves the program
\* (0..3, the address after the branch included), and again and again an
\* Execute leaves PC = 0: the loop runs forever.  The same holds for every
\* program of LoopFamily, whose branch goes back over its own length.
C23_LoopsForever ==
    /\ TheLoop \in LoopFamily
    /\ [](LoopLoaded => ret = "nil" /\ PC \in 0..Len(src))
    /\ []<>(LoopLoaded => op = "Execute" /\ PC = 0)
    /\ []<>(LoopLoaded => op = "Fetch" /\ PC = Len(src))

\* the branch of the loop has been executed with r1 = 1 and has left PC = 0
C23_BranchedBack ==
    /\ src = TheLoop
    /\ M = Load(<<1024, 9345, 49277>>)
    /\ op = "Execute"
    /\ PC = 0
    /\ GPR[1] = 1
    /\ ret = "nil"

----------------------------------------------------------------------------
(* Properties of the goroutines, under SpecGo *)

\* every goroutine has returned
AllReturned ==
    lexing.pc = "done" /\ parsing.pc = "done" /\ assembling.pc = "done"

\* C24: with a consumer that receives from the assembling's channel until it
\* is closed, the lexing, the parser and the assembler all return, whatever
\* the input; no channel is ever closed twice, and when the goroutines have
\* returned each channel has been closed once, the lexer has sent all its
\* tokens and the parser all the instructions it held: nobody is left
\* blocked in a send.  After a parse error too: the parser receives the
\* lexing's remaining tokens.
C24_GoroutinesTerminate ==
    /\ [](\A c \in DOMAIN closes : closes[c] <= 1)
    /\ <>[](/\ AllReturned
            /\ closes = [tokens |-> 1, instructions |-> 1, out |-> 1]
            /\ lexing.tokens = <<>>
            /\ parsing.instr = <<>>
            /\ pos > Len(LexAsync(src))
            /\ Unpack(out) = AssemblerAsync(src))

\* `add r1 r2`, then two valid lines: the assembler has sent the diagnostic
\* and returned, the parser has received the nine tokens of the lines after
\* the error and returned, and so has the lexing
C24_DrainedAfterError ==
    /\ src = <<L_add_short, L_add, L_halt>>
    /\ AllReturned
    /\ phase = "aborted"
    /\ Len(LexAsync(src)) = 11
    /\ pos = 12
    /\ closes = [tokens |-> 1, instructions |-> 1, out |-> 1]

\* the first loop of AssemblerAsync has received an error instruction: it
\* is at, or past, the send of the diagnostic, and the parser has left its
\* loop
ErrorDelivered ==
    /\ assembling.pc = "diag" \/ phase = "aborted"
    /\ parsing.pc \in {"drain", "close", "done"}

\* C37: a step that sends a record on the assembler's channel is taken only
\* when the parser has closed its channel or has delivered an error
\* instruction; a step that writes the label map is a step of the first
\* loop, taken before any record is sent and before the parser's channel is
\* closed; and once a record has been sent the records are those of the
\* second loop on the instructions of the whole source, or the one
\* diagnostic.
C37_EncodeAfterParserEnds ==
    /\ [][out' # out => closes.instructions > 0 \/ ErrorDelivered]_vars
    /\ [][labels' # labels
           => /\ phase = "pass1" /\ phase' = "pass1"
              /\ assembling.pc = "recv"
              /\ closes.instructions = 0
              /\ out = <<>> /\ out' = <<>>]_vars
    /\ [](out # <<>> /\ ~ErrorDelivered
          => /\ parsing.pc = "done"
             /\ labels = FirstLoop(LexAsync(src), FirstLoopStart).labels
             /\ Unpack(instructions)
                = FirstLoop(LexAsync(src), FirstLoopStart).instructions)

\* `L: movi r1 L` and `halt`: the label is bound, the parser has closed its
\* channel and the first of the three records has been sent
C37_FirstRecordAfterClose ==
    /\ src = <<L_movi, L_halt>>
    /\ labels = [l \in {<<"L">>} |-> 0]
    /\ closes.instructions = 1
    /\ assembling.pc = "send"
    /\ Len(Unpack(out)) = 1
    /\ Len(assembling.records) = 2

====
